---- MODULE Spec2Model ----
(***************************************************************************)
(* Model of the Poltrona Frau product-page scraper (src/scraper.py) and of  *)
(* the functions of the application that drive it (src/app.py).            *)
(*                                                                         *)
(* A string is a sequence of one-character strings, so that prefix tests,  *)
(* substring tests, case conversion, tag stripping and URL joining are     *)
(* computed character by character as the Python code computes them.       *)
(* Python's None is the distinguished value None below.                    *)
(***************************************************************************)
EXTENDS Integers, Sequences, FiniteSets, TLC

VARIABLES page, pc, out, ran, raised, fetched, record,
          entry, urls, idx, all_data, ctl, drivers, now, events, err, data,
          sitemap, sitemap_urls,
          session_state, widgets

\* the state of extract_all_data
extractVars == <<page, pc, out, ran, raised, fetched, record>>

\* the state of the functions that call it
appVars == <<entry, urls, idx, all_data, ctl, drivers, now, events, err, data,
             sitemap, sitemap_urls>>

\* the state of the Streamlit script: st.session_state and the values of the
\* widgets that outlive a run
uiVars == <<session_state, widgets>>

vars == <<extractVars, appVars, uiVars>>

(***************************************************************************)
(* Bounds of the model.                                                    *)
(***************************************************************************)
MaxLinks == 2
MaxImgs == 2
MaxCrumbs == 2
MaxCells == 2
MaxParas == 2
MaxUrls == 2
MaxLocs == 2

(***************************************************************************)
(* Strings.                                                                *)
(***************************************************************************)
None == <<"<None>">>

Truthy(s) == s # None /\ s # <<>>

Or(a, b) == IF Truthy(a) THEN a ELSE b

LowerCase == <<"a","b","c","d","e","f","g","h","i","j","k","l","m",
               "n","o","p","q","r","s","t","u","v","w","x","y","z">>
UpperCase == <<"A","B","C","D","E","F","G","H","I","J","K","L","M",
               "N","O","P","Q","R","S","T","U","V","W","X","Y","Z">>

UpperChar(c) ==
    IF \E i \in 1..26 : LowerCase[i] = c
    THEN UpperCase[CHOOSE i \in 1..26 : LowerCase[i] = c]
    ELSE c

LowerChar(c) ==
    IF \E i \in 1..26 : UpperCase[i] = c
    THEN LowerCase[CHOOSE i \in 1..26 : UpperCase[i] = c]
    ELSE c

Upper(s) == [i \in 1..Len(s) |-> UpperChar(s[i])]
Lower(s) == [i \in 1..Len(s) |-> LowerChar(s[i])]

IsLetter(c) == \E i \in 1..26 : LowerCase[i] = c \/ UpperCase[i] = c

StartsWith(s, p) == Len(s) >= Len(p) /\ SubSeq(s, 1, Len(p)) = p
EndsWith(s, p) == Len(s) >= Len(p) /\ SubSeq(s, Len(s) - Len(p) + 1, Len(s)) = p

Occurs(s, p) == {i \in 1..(Len(s) - Len(p) + 1) : SubSeq(s, i, i + Len(p) - 1) = p}
Contains(s, p) == Occurs(s, p) # {}

Min(S) == CHOOSE x \in S : \A y \in S : x <= y
Max(S) == CHOOSE x \in S : \A y \in S : x >= y

\* str.split(p)[0]: the part before the first occurrence of p
BeforeFirst(s, p) == IF Contains(s, p) THEN SubSeq(s, 1, Min(Occurs(s, p)) - 1) ELSE s
\* str.split(p)[-1]: the part after the last occurrence of p
AfterLast(s, p) == IF Contains(s, p) THEN SubSeq(s, Max(Occurs(s, p)) + Len(p), Len(s)) ELSE s

IsSpace(c) == c = " "

\* str.strip()
Strip(s) ==
    LET keep == {i \in 1..Len(s) : ~IsSpace(s[i])}
    IN  IF keep = {} THEN <<>> ELSE SubSeq(s, Min(keep), Max(keep))

\* re.sub(r'<[^>]+>', '', s).  A match cannot span a '>', so each one lies in
\* a stretch of characters other than '>' that ends with a '>': it runs from
\* the first '<' of the stretch to that '>', provided a character lies between.
\* InTag(s, x): position x is inside a match.
InTag(s, x) ==
    LET closers == {j \in x..Len(s) : s[j] = ">"}
    IN  /\ closers # {}
        /\ LET close == Min(closers)
               before == {j \in 1..(x - 1) : s[j] = ">"}
               start == IF before = {} THEN 1 ELSE Max(before) + 1
               opens == {i \in start..(close - 1) : s[i] = "<"}
           IN  /\ opens # {}
               /\ Min(opens) <= close - 2
               /\ Min(opens) <= x

StripTags(s) ==
    LET kept == SelectSeq([i \in 1..Len(s) |-> i], LAMBDA i : ~InTag(s, i))
    IN  [k \in 1..Len(kept) |-> s[kept[k]]]

Rep(c, n) == [i \in 1..n |-> c]

IndexOf(seq, x) == Min({i \in 1..Len(seq) : seq[i] = x})
Range(seq) == {seq[i] : i \in 1..Len(seq)}

RECURSIVE SeqsUpTo(_, _)
SeqsUpTo(S, n) ==
    IF n = 0 THEN {<<>>}
    ELSE LET shorter == SeqsUpTo(S, n - 1)
         IN  shorter \cup {Append(q, x) : q \in shorter, x \in S}

(***************************************************************************)
(* Literals of the source.                                                 *)
(***************************************************************************)
W_https == <<"h", "t", "t", "p", "s">>
W_placeholder == <<"p", "l", "a", "c", "e", "h", "o", "l", "d", "e", "r">>
W_loading == <<"l", "o", "a", "d", "i", "n", "g">>
W_blank == <<"b", "l", "a", "n", "k">>
W_icon == <<"i", "c", "o", "n">>
W_svg == <<".", "s", "v", "g">>
W_UNDEFINED == <<"U", "N", "D", "E", "F", "I", "N", "E", "D">>
W_designer == <<"d", "e", "s", "i", "g", "n", "e", "r">>
W_tab_designer == <<"t", "a", "b", "-", "d", "e", "s", "i", "g", "n", "e", "r">>
W_massaud == <<"m", "a", "s", "s", "a", "u", "d">>
W_lazzeroni == <<"l", "a", "z", "z", "e", "r", "o", "n", "i">>
W_finishes == <<"f", "i", "n", "i", "s", "h", "e", "s">>
W_01_hero == <<"0", "1", "_", "h", "e", "r", "o">>
W_02_thumbnails == <<"0", "2", "_", "t", "h", "u", "m", "b", "n", "a", "i", "l", "s">>
W_03_concept == <<"0", "3", "_", "c", "o", "n", "c", "e", "p", "t">>
W_08_dimensioni == <<"0", "8", "_", "d", "i", "m", "e", "n", "s", "i", "o", "n", "i">>
W_jcr_content == <<"/", "j", "c", "r", ":", "c", "o", "n", "t", "e", "n", "t">>
W_Unknown_Download == <<"U", "n", "k", "n", "o", "w", "n", " ", "D", "o", "w", "n", "l", "o", "a", "d">>
W_Unknown == <<"U", "n", "k", "n", "o", "w", "n">>
W_General == <<"G", "e", "n", "e", "r", "a", "l">>
W_Unknown_Category == <<"U", "n", "k", "n", "o", "w", "n", " ", "C", "a", "t", "e", "g", "o", "r", "y">>
W_Finish_Item == <<"F", "i", "n", "i", "s", "h", " ", "I", "t", "e", "m">>

(***************************************************************************)
(* URLs.                                                                   *)
(***************************************************************************)
SchemeSep == <<":", "/", "/">>

\* urlparse(url).scheme and urlparse(url).netloc of a page URL scheme://netloc/path
UrlScheme(url) == BeforeFirst(url, SchemeSep)
UrlNetloc(url) ==
    LET rest == SubSeq(url, Len(UrlScheme(url)) + 4, Len(url))
    IN  BeforeFirst(rest, <<"/">>)

\* self.base_url = f"{urlparse(url).scheme}://{urlparse(url).netloc}"
BaseUrl(url) == UrlScheme(url) \o SchemeSep \o UrlNetloc(url)

\* urljoin(base, ref) for the references the code passes to it, which all start
\* with '/': a network-path reference '//host/path' takes only the base's scheme,
\* a root-relative '/path' replaces the base's path (the model's paths hold no
\* '.' or '..' segments, which urljoin would also resolve)
urljoin(base, ref) ==
    IF StartsWith(ref, <<"/", "/">>)
    THEN UrlScheme(base) \o <<":">> \o ref
    ELSE BaseUrl(base) \o ref

\* scheme://host..., with a non-empty scheme of letters and a non-empty host
IsAbsoluteUrl(u) ==
    /\ u # None
    /\ Contains(u, SchemeSep)
    /\ LET i == Min(Occurs(u, SchemeSep))
       IN  /\ i > 1
           /\ \A k \in 1..(i - 1) : IsLetter(u[k])
           /\ Len(u) >= i + 3
           /\ u[i + 3] # "/"

(***************************************************************************)
(* Outcome of one extraction strategy: ret says that the strategy executes *)
(* a return statement (with value), exc names an exception that no except  *)
(* clause around the strategy catches.                                     *)
(***************************************************************************)
Hit(v) == [ret |-> TRUE, value |-> v, exc |-> "none"]
Miss == [ret |-> FALSE, value |-> None, exc |-> "none"]
Raise(e) == [ret |-> FALSE, value |-> None, exc |-> e]

\* what an extractor hands back: its value, the strategies it ran, in order,
\* and the exception that escapes it, if any
Result(s, strategies) == [value |-> s.value, ran |-> strategies, exc |-> s.exc]

(***************************************************************************)
(* The JSON-LD breadcrumb block <script id="jsonldBreadcrumb">.            *)
(*   present : the element exists                                          *)
(*   valid   : json.loads accepts its innerHTML                            *)
(*   top     : "obj" when the document is a JSON object, else "other"      *)
(*   list    : what the key itemListElement holds: "missing", "null",      *)
(*             "zero", "number", "emptystring", "string", "emptydict",     *)
(*             "dict" or "list"                                            *)
(*   entries : the elements when list = "list"; an entry has kind "obj" or *)
(*             "other" (null, string, number, array), item "missing",      *)
(*             "obj" or "other", and name / id (None when the key is       *)
(*             missing)                                                    *)
(***************************************************************************)
product_name_heading(p) ==
    IF p.h1span = None THEN Miss ELSE Hit(Strip(p.h1span))

product_name_form(p) ==
    IF p.formName = None THEN Miss ELSE Hit(p.formName)

product_name_jsonld(p) ==
    LET j == p.jsonld
    IN  IF ~j.present \/ ~j.valid \/ j.top # "obj" THEN Miss
        ELSE IF j.list \in {"missing", "null", "zero", "emptystring", "emptydict"} THEN Miss
        ELSE IF j.list = "number" THEN Raise("TypeError")
        ELSE IF j.list = "dict" THEN Raise("KeyError")
        ELSE IF j.list = "string" THEN Miss
        ELSE IF j.entries = <<>> THEN Miss
        ELSE LET last == j.entries[Len(j.entries)]
             IN  IF last.kind # "obj" \/ last.item = "other" THEN Miss
                 ELSE IF last.item = "missing" THEN Hit(None)
                 ELSE Hit(last.name)

\* a variant that goes from the heading straight to the JSON-LD block
extract_product_name_skipping_form(p) ==
    LET s1 == product_name_heading(p)
        s3 == product_name_jsonld(p)
    IN  IF s1.ret THEN Result(s1, <<1>>) ELSE Result(s3, <<1, 3>>)

extract_product_name(p) ==
    LET s1 == product_name_heading(p)
        s2 == product_name_form(p)
        s3 == product_name_jsonld(p)
    IN  IF s1.ret THEN Result(s1, <<1>>)
        ELSE IF s2.ret THEN Result(s2, <<1, 2>>)
        ELSE Result(s3, <<1, 2, 3>>)

sku_container(p) ==
    IF p.divSku.found /\ Truthy(p.divSku.sku) THEN Hit(p.divSku.sku) ELSE Miss

sku_form(p) ==
    IF p.formSku = None THEN Miss ELSE Hit(p.formSku)

\* a variant in which the form attribute overrides the container's SKU
extract_sku_last_wins(p) ==
    LET s1 == sku_container(p)
        s2 == sku_form(p)
    IN  IF s2.ret THEN Result(s2, <<1, 2>>) ELSE Result(s1, <<1>>)

extract_sku(p) ==
    LET s1 == sku_container(p)
        s2 == sku_form(p)
    IN  IF s1.ret THEN Result(s1, <<1>>) ELSE Result(s2, <<1, 2>>)

designer_heading(p) ==
    IF p.designerH3 = None THEN Miss ELSE Hit(Strip(p.designerH3))

designer_form(p) ==
    IF p.formDesigner = None THEN Miss ELSE Hit(p.formDesigner)

\* a variant that answers 'Unknown' when neither strategy finds a designer
extract_designer_or_unknown(p) ==
    LET s1 == designer_heading(p)
        s2 == designer_form(p)
    IN  IF s1.ret THEN Result(s1, <<1>>)
        ELSE IF s2.ret THEN Result(s2, <<1, 2>>)
        ELSE Result(Hit(W_Unknown), <<1, 2>>)

extract_designer(p) ==
    LET s1 == designer_heading(p)
        s2 == designer_form(p)
    IN  IF s1.ret THEN Result(s1, <<1>>) ELSE Result(s2, <<1, 2>>)

(***************************************************************************)
(* Breadcrumbs.  The navigation widget nav.cmp-breadcrumb: each item has   *)
(* link (an a.cmp-breadcrumb__item-link exists), linkSpan (the text of the *)
(* name span inside the link, None when there is none), itemSpan (the text *)
(* of the first name span anywhere in the item, None when there is none)   *)
(* and href.                                                               *)
(***************************************************************************)
Crumb(n, u) == [name |-> n, url |-> u]

\* the loop over itemListElement: the crumbs appended before the loop ends or
\* an entry raises AttributeError
RECURSIVE jsonld_crumbs(_, _)
jsonld_crumbs(entries, i) ==
    IF i > Len(entries) THEN [crumbs |-> <<>>, failed |-> FALSE]
    ELSE LET e == entries[i]
         IN  IF e.kind # "obj" \/ e.item = "other"
             THEN [crumbs |-> <<>>, failed |-> TRUE]
             ELSE LET c == IF e.item = "missing" THEN Crumb(<<>>, <<>>)
                           ELSE Crumb(IF e.name = None THEN <<>> ELSE e.name,
                                      IF e.id = None THEN <<>> ELSE e.id)
                      rest == jsonld_crumbs(entries, i + 1)
                  IN  [crumbs |-> <<c>> \o rest.crumbs, failed |-> rest.failed]

RECURSIVE nav_crumbs(_, _, _)
nav_crumbs(items, i, url) ==
    IF i > Len(items) THEN <<>>
    ELSE LET it == items[i]
             here == IF it.link /\ it.linkSpan # None
                     THEN <<Crumb(Strip(it.linkSpan), it.href)>>
                     ELSE IF it.itemSpan # None
                     THEN <<Crumb(Strip(it.itemSpan), url)>>
                     ELSE <<>>
         IN  here \o nav_crumbs(items, i + 1, url)

breadcrumbs_nav(p) == IF p.nav.present THEN nav_crumbs(p.nav.items, 1, p.url) ELSE <<>>

extract_breadcrumbs(p) ==
    LET j == p.jsonld
        fallback(sofar) == [value |-> sofar \o breadcrumbs_nav(p), ran |-> <<1, 2>>, exc |-> "none"]
    IN  IF ~j.present \/ ~j.valid \/ j.top # "obj" THEN fallback(<<>>)
        ELSE IF j.list \in {"null", "zero", "number"}
        THEN [value |-> <<>>, ran |-> <<1>>, exc |-> "TypeError"]
        ELSE IF j.list \in {"missing", "emptystring", "emptydict"}
        THEN [value |-> <<>>, ran |-> <<1>>, exc |-> "none"]
        ELSE IF j.list \in {"string", "dict"} THEN fallback(<<>>)
        ELSE LET r == jsonld_crumbs(j.entries, 1)
             IN  IF r.failed THEN fallback(r.crumbs)
                 ELSE [value |-> r.crumbs, ran |-> <<1>>, exc |-> "none"]

(***************************************************************************)
(* Product description and designer biography: script-evaluated innerHTML. *)
(*   paras       : the <p> elements inside .cmp-productcontents, in        *)
(*                 document order; inCmpText says the <p> is inside a      *)
(*                 .cmp-text, html is its innerHTML                        *)
(*   bioSel[k]   : the innerHTML of the first element matching the k-th    *)
(*                 biography selector, None when nothing matches           *)
(*   scriptError : execute_script raises                                   *)
(***************************************************************************)
DescriptionMinLen == 20
BioMinLen == 100
ConceptMinLen == 50

\* JavaScript's e?.innerHTML?.trim() || null
TrimOrNull(html) == IF html = None \/ Strip(html) = <<>> THEN None ELSE Strip(html)

CleanText(markup) == Strip(StripTags(markup))

description_primary(p) ==
    LET hits == {i \in 1..Len(p.paras) : p.paras[i].inCmpText}
        description == IF hits = {} THEN None ELSE TrimOrNull(p.paras[Min(hits)].html)
    IN  IF p.scriptError THEN Miss
        ELSE IF Truthy(description) /\ Len(description) > DescriptionMinLen
        THEN Hit(CleanText(description))
        ELSE Miss

description_fallback(p) ==
    LET long == {i \in 1..Len(p.paras) :
                    /\ TrimOrNull(p.paras[i].html) # None
                    /\ Len(TrimOrNull(p.paras[i].html)) > DescriptionMinLen}
    IN  IF p.scriptError \/ long = {} THEN Miss
        ELSE Hit(CleanText(TrimOrNull(p.paras[Min(long)].html)))

extract_product_description(p) ==
    LET s1 == description_primary(p)
        s2 == description_fallback(p)
    IN  IF s1.ret THEN Result(s1, <<1>>) ELSE Result(s2, <<1, 2>>)

\* a variant that returns the innerHTML as it is, tags included
bio_strategy_keeping_tags(p, k) ==
    LET bio_text == TrimOrNull(p.bioSel[k])
    IN  IF p.scriptError THEN Miss
        ELSE IF Truthy(bio_text) /\ Len(bio_text) > BioMinLen
        THEN Hit(bio_text)
        ELSE Miss

\* strategy 1 is 'div.text.paneltext p'; strategies 2..4 are the fallback
\* selectors '.paneltext p', '.text.paneltext', '[class*="paneltext"] p'
bio_strategy(p, k) ==
    LET bio_text == TrimOrNull(p.bioSel[k])
    IN  IF p.scriptError THEN Miss
        ELSE IF Truthy(bio_text) /\ Len(bio_text) > BioMinLen
        THEN Hit(CleanText(bio_text))
        ELSE Miss

RECURSIVE bio_from(_, _)
bio_from(p, k) ==
    LET s == bio_strategy(p, k)
    IN  IF s.ret \/ k = Len(p.bioSel) THEN Result(s, [i \in 1..k |-> i])
        ELSE bio_from(p, k + 1)

extract_designer_bio(p) == bio_from(p, 1)

(***************************************************************************)
(* The <img> elements of the page, in document order.  src, dataSrc and    *)
(* lazySrc are the values get_attribute reports (None when the attribute   *)
(* is missing); hero says the image is inside .cmp-producthero__image,     *)
(* heroCls that it is inside .hero.                                        *)
(***************************************************************************)
AttrContains(a, token) == a # None /\ Contains(a, token)

\* the two branches that make a URL absolute in extract_designer_image
designer_image_url(base, u) ==
    IF StartsWith(u, <<"/", "/">>) THEN W_https \o <<":">> \o u
    ELSE IF StartsWith(u, <<"/">>) THEN urljoin(base, u)
    ELSE u

\* designer_selectors, in order: which attribute must contain which token
DesignerSelectors ==
    << [attr |-> "src", token |-> W_tab_designer],
       [attr |-> "dataSrc", token |-> W_tab_designer],
       [attr |-> "src", token |-> W_designer],
       [attr |-> "dataSrc", token |-> W_designer] >>

designer_image_selector(p, k) ==
    LET sel == DesignerSelectors[k]
        matches == {i \in 1..Len(p.imgs) : AttrContains(p.imgs[i][sel.attr], sel.token)}
        img_url == Or(p.imgs[Min(matches)].src, p.imgs[Min(matches)].dataSrc)
    IN  IF matches = {} THEN Miss
        ELSE IF Truthy(img_url) THEN Hit(designer_image_url(BaseUrl(p.url), img_url))
        ELSE Miss

designer_image_scan(p) ==
    LET srcOf(i) == Or(p.imgs[i].src, p.imgs[i].dataSrc)
        matches == {i \in 1..Len(p.imgs) :
                       /\ p.imgs[i].src # None \/ p.imgs[i].dataSrc # None
                       /\ Truthy(srcOf(i))
                       /\ \/ Contains(Lower(srcOf(i)), W_massaud)
                          \/ Contains(Lower(srcOf(i)), W_lazzeroni)
                          \/ Contains(Lower(srcOf(i)), W_designer)}
    IN  IF matches = {} THEN Miss
        ELSE Hit(designer_image_url(BaseUrl(p.url), srcOf(Min(matches))))

RECURSIVE designer_image_from(_, _)
designer_image_from(p, k) ==
    IF k > Len(DesignerSelectors)
    THEN Result(designer_image_scan(p), [i \in 1..k |-> i])
    ELSE LET s == designer_image_selector(p, k)
         IN  IF s.ret THEN Result(s, [i \in 1..k |-> i])
             ELSE designer_image_from(p, k + 1)

extract_designer_image(p) == designer_image_from(p, 1)

(***************************************************************************)
(* Concept and design.  metaDesc and ogDesc are the two <meta> elements    *)
(* (found, and the content attribute, None when missing); conceptSel[k] is *)
(* the text of the first element matching the k-th concept selector, None  *)
(* when nothing matches.                                                   *)
(***************************************************************************)
E_lt == <<"&", "l", "t", ";">>
E_gt == <<"&", "g", "t", ";">>
E_amp == <<"&", "a", "m", "p", ";">>

\* html.unescape, one pass from the left, for the entities of the model's
\* alphabet: &lt; &gt; &amp;
RECURSIVE UnescapeFrom(_, _)
UnescapeFrom(s, i) ==
    LET at(e) == i + Len(e) - 1 <= Len(s) /\ SubSeq(s, i, i + Len(e) - 1) = e
    IN  IF i > Len(s) THEN <<>>
        ELSE IF at(E_lt) THEN <<"<">> \o UnescapeFrom(s, i + Len(E_lt))
        ELSE IF at(E_gt) THEN <<">">> \o UnescapeFrom(s, i + Len(E_gt))
        ELSE IF at(E_amp) THEN <<"&">> \o UnescapeFrom(s, i + Len(E_amp))
        ELSE <<s[i]>> \o UnescapeFrom(s, i + 1)

unescape(s) == UnescapeFrom(s, 1)

concept_meta(m) ==
    IF m.found /\ Truthy(m.content)
    THEN Hit(Strip(StripTags(unescape(m.content))))
    ELSE Miss

concept_selector(p, k) ==
    LET concept_text == IF p.conceptSel[k] = None THEN None ELSE Strip(p.conceptSel[k])
    IN  IF Truthy(concept_text) /\ Len(concept_text) > ConceptMinLen
        THEN Hit(concept_text)
        ELSE Miss

\* strategies 1 and 2 are the meta tags, strategies 3.. the concept selectors
RECURSIVE concept_from(_, _)
concept_from(p, k) ==
    LET s == concept_selector(p, k)
    IN  IF s.ret \/ k = Len(p.conceptSel) THEN Result(s, [i \in 1..(k + 2) |-> i])
        ELSE concept_from(p, k + 1)

extract_concept_and_design(p) ==
    LET s1 == concept_meta(p.metaDesc)
        s2 == concept_meta(p.ogDesc)
    IN  IF s1.ret THEN Result(s1, <<1>>)
        ELSE IF s2.ret THEN Result(s2, <<1, 2>>)
        ELSE concept_from(p, 1)

(***************************************************************************)
(* Images by category.                                                     *)
(***************************************************************************)
ImageMarkers == {W_placeholder, W_loading, W_blank, W_icon, W_svg}

\* a variant that gives protocol-relative sources the scheme http
process_image_src_http(base, src) ==
    IF ~Truthy(src) THEN None
    ELSE LET abs == IF StartsWith(src, <<"/", "/">>) THEN <<"h", "t", "t", "p", ":">> \o src
                    ELSE IF StartsWith(src, <<"/">>) THEN urljoin(base, src)
                    ELSE src
         IN  IF \E m \in ImageMarkers : Contains(Lower(abs), m) THEN None ELSE abs

\* a variant whose marker list lacks 'icon'
process_image_src_no_icon(base, src) ==
    IF ~Truthy(src) THEN None
    ELSE LET abs == IF StartsWith(src, <<"/", "/">>) THEN W_https \o <<":">> \o src
                    ELSE IF StartsWith(src, <<"/">>) THEN urljoin(base, src)
                    ELSE src
         IN  IF \E m \in ImageMarkers \ {W_icon} : Contains(Lower(abs), m) THEN None ELSE abs

process_image_src(base, src) ==
    IF ~Truthy(src) THEN None
    ELSE LET abs == IF StartsWith(src, <<"/", "/">>) THEN W_https \o <<":">> \o src
                    ELSE IF StartsWith(src, <<"/">>) THEN urljoin(base, src)
                    ELSE src
         IN  IF \E m \in ImageMarkers : Contains(Lower(abs), m) THEN None ELSE abs

\* img.get_attribute('src') or img.get_attribute('data-src') or
\* img.get_attribute('data-lazy-src')
image_source(img) == Or(Or(img.src, img.dataSrc), img.lazySrc)

\* find_elements for 'img[src*=T], img[data-src*=T], img[data-lazy-src*=T]'
ImgsWithToken(imgs, token) ==
    SelectSeq(imgs, LAMBDA img : \/ AttrContains(img.src, token)
                                 \/ AttrContains(img.dataSrc, token)
                                 \/ AttrContains(img.lazySrc, token))

\* the three hero selectors, one after the other
HeroMatches(imgs) ==
    SelectSeq(imgs, LAMBDA img : img.hero)
        \o SelectSeq(imgs, LAMBDA img : img.heroCls)
        \o ImgsWithToken(imgs, W_01_hero)

\* the processed source of every matched element, in the order the loops meet them
Encountered(base, matched) ==
    [i \in 1..Len(matched) |-> process_image_src(base, image_source(matched[i]))]

\* a variant that appends without looking for the source in the list
RECURSIVE AppendAll(_, _, _)
AppendAll(acc, srcs, i) ==
    IF i > Len(srcs) THEN acc
    ELSE IF Truthy(srcs[i])
    THEN AppendAll(Append(acc, srcs[i]), srcs, i + 1)
    ELSE AppendAll(acc, srcs, i + 1)

\* if src and src not in images[category]: images[category].append(src)
RECURSIVE AppendNew(_, _, _)
AppendNew(acc, srcs, i) ==
    IF i > Len(srcs) THEN acc
    ELSE IF Truthy(srcs[i]) /\ srcs[i] \notin Range(acc)
    THEN AppendNew(Append(acc, srcs[i]), srcs, i + 1)
    ELSE AppendNew(acc, srcs, i + 1)

ImageCategories == {"hero_images", "product_images", "contextual_images", "dimension_images"}

MatchedImgs(p, category) ==
    CASE category = "hero_images" -> HeroMatches(p.imgs)
      [] category = "product_images" -> ImgsWithToken(p.imgs, W_02_thumbnails)
      [] category = "contextual_images" -> ImgsWithToken(p.imgs, W_03_concept)
      [] category = "dimension_images" -> ImgsWithToken(p.imgs, W_08_dimensioni)

\* the images dict as first built: every category with an empty list
EmptyImages == [c \in ImageCategories |-> <<>>]

\* a variant that creates a category's key when its first image is appended
extract_images_lazily(p) ==
    LET found(c) == AppendNew(<<>>, Encountered(BaseUrl(p.url), MatchedImgs(p, c)), 1)
    IN  [c \in {k \in ImageCategories : found(k) # <<>>} |-> found(c)]

extract_images_by_category(p) ==
    [c \in DOMAIN EmptyImages |->
        AppendNew(EmptyImages[c], Encountered(BaseUrl(p.url), MatchedImgs(p, c)), 1)]

(***************************************************************************)
(* Downloads.  links are the a[data-href] elements in document order:      *)
(* dataHref is the attribute; subitem, flex and button are the text of the *)
(* title span found through the nearest such ancestor, None when the       *)
(* ancestor or its title span does not exist.                              *)
(***************************************************************************)
\* Method 4: the label taken from the file name
label_from_filename(data_href) ==
    LET filename_part == AfterLast(data_href, <<"/">>)
    IN  IF Contains(filename_part, <<"_">>)
        THEN Upper(BeforeFirst(AfterLast(filename_part, <<"_">>), <<".">>))
        ELSE W_Unknown_Download

\* Methods 1..3: the title found through an ancestor, None when not found
label_strategy(link, k) ==
    LET text == CASE k = 1 -> link.subitem [] k = 2 -> link.flex [] k = 3 -> link.button
    IN  IF text = None THEN None ELSE Strip(text)

\* download_title and the methods run for one link
download_label(link) ==
    LET t1 == label_strategy(link, 1)
        t2 == label_strategy(link, 2)
        t3 == label_strategy(link, 3)
    IN  IF Truthy(t1) THEN [value |-> t1, ran |-> <<1>>]
        ELSE IF Truthy(Or(t1, t2)) THEN [value |-> Or(t1, t2), ran |-> <<1, 2>>]
        ELSE IF Truthy(Or(Or(t1, t2), t3)) THEN [value |-> Or(Or(t1, t2), t3), ran |-> <<1, 2, 3>>]
        ELSE [value |-> label_from_filename(link.dataHref), ran |-> <<1, 2, 3, 4>>]

download_url(base, data_href) ==
    IF StartsWith(data_href, <<"/">>) THEN urljoin(base, data_href) ELSE data_href

\* the first loop: one candidate per link with a data-href and a label
RECURSIVE download_candidates(_, _, _)
download_candidates(base, links, i) ==
    IF i > Len(links) THEN <<>>
    ELSE LET link == links[i]
             download_title == download_label(link).value
             here == IF Truthy(link.dataHref) /\ Truthy(download_title)
                     THEN << [group |-> Upper(download_title),
                              url |-> download_url(base, link.dataHref)] >>
                     ELSE <<>>
         IN  here \o download_candidates(base, links, i + 1)

download_key(d) == d.group \o <<"|">> \o d.url

\* a variant that only skips blank groups
download_invalid_blank_only(d) ==
    \/ ~Truthy(d.group)
    \/ Strip(d.group) = <<>>

\* 'Skip empty or invalid entries'
download_invalid(d) ==
    \/ ~Truthy(d.group)
    \/ Strip(d.group) = <<>>
    \/ Contains(d.group, W_UNDEFINED)

\* the second loop: unique_downloads, with the set seen of keys
RECURSIVE unique_downloads(_, _, _)
unique_downloads(downloads, i, seen) ==
    IF i > Len(downloads) THEN <<>>
    ELSE LET d == downloads[i]
         IN  IF download_invalid(d) \/ download_key(d) \in seen
             THEN unique_downloads(downloads, i + 1, seen)
             ELSE <<d>> \o unique_downloads(downloads, i + 1, seen \cup {download_key(d)})

extract_downloads(p) ==
    unique_downloads(download_candidates(BaseUrl(p.url), p.links, 1), 1, {})

(***************************************************************************)
(* Coverings and finishes.                                                 *)
(*   includePrimary  : data-include of #finishes-tab-positioning-bottom,   *)
(*                     None when no such element                           *)
(*   includeFallback : data-include of the first element whose data-include*)
(*                     contains 'finishes', None when there is none        *)
(*   response        : what requests.get gives: raises, or a status        *)
(*   doc             : the fetched document:                               *)
(*       tablist : an <ol role="tablist"> exists                           *)
(*       tabs    : its <li role="tab"> items: label (text) and id          *)
(*       panels  : the <div id=...> panels: id and headers, the            *)
(*                 h3.cmp-accordion__header elements inside it; a header   *)
(*                 has title (text of its title span, None when missing),  *)
(*                 inItem (it has a .cmp-accordion__item ancestor) and     *)
(*                 cells, the div.finishes__grid-cell of that item         *)
(*       a cell  : hasImg (it holds an img[data-src]), dataSrc and alt of  *)
(*                 that image, caption, siblingText and nestedText (None   *)
(*                 when the element is missing)                            *)
(*       extraImgs : the img[data-src] elements outside any grid cell      *)
(***************************************************************************)
StatusOK == 200

\* a variant that falls back to a fixed include URL
include_url_or_default(p) ==
    IF p.includePrimary # None THEN p.includePrimary
    ELSE IF p.includeFallback # None THEN p.includeFallback
    ELSE <<"/">> \o W_finishes

include_url_of(p) ==
    IF p.includePrimary # None THEN p.includePrimary ELSE p.includeFallback

finish_url(base, data_src) ==
    LET image_url == BeforeFirst(data_src, W_jcr_content)
    IN  IF StartsWith(image_url, <<"/">>) THEN urljoin(base, image_url) ELSE image_url

\* a variant that adds an entry for a cell whose image has an empty URL too
cell_entries_without_url(base, material_type, category_name, cell) ==
    IF cell.hasImg
    THEN << [material |-> material_type, category |-> category_name,
             entry |-> [color_caption |-> <<>>, color_name |-> <<>>,
                        color_url |-> finish_url(base, cell.dataSrc)]] >>
    ELSE <<>>

\* one grid cell: the entry it adds, if any
cell_entries(base, material_type, category_name, cell) ==
    LET image_url == finish_url(base, cell.dataSrc)
        color_caption == IF cell.caption = None THEN <<>> ELSE Strip(cell.caption)
        sibling == IF cell.siblingText = None THEN <<>> ELSE Strip(cell.siblingText)
        nested == IF cell.nestedText = None THEN <<>> ELSE Strip(cell.nestedText)
        color_name == IF Truthy(sibling) THEN sibling ELSE nested
    IN  IF cell.hasImg /\ Truthy(image_url)
        THEN << [material |-> material_type, category |-> category_name,
                 entry |-> [color_caption |-> color_caption,
                            color_name |-> color_name,
                            color_url |-> image_url]] >>
        ELSE <<>>

RECURSIVE cells_entries(_, _, _, _, _)
cells_entries(base, material_type, category_name, cells, i) ==
    IF i > Len(cells) THEN <<>>
    ELSE cell_entries(base, material_type, category_name, cells[i])
            \o cells_entries(base, material_type, category_name, cells, i + 1)

RECURSIVE headers_entries(_, _, _, _)
headers_entries(base, material_type, headers, i) ==
    IF i > Len(headers) THEN <<>>
    ELSE LET header == headers[i]
             category_name == IF header.title = None THEN W_Unknown_Category
                              ELSE Strip(header.title)
             here == IF header.inItem
                     THEN cells_entries(base, material_type, category_name, header.cells, 1)
                     ELSE <<>>
         IN  here \o headers_entries(base, material_type, headers, i + 1)

\* soup.find('div', id=panel_id): the index of the first panel with that id,
\* 0 when there is none
find_panel(doc, panel_id) ==
    LET hits == {i \in 1..Len(doc.panels) : doc.panels[i].id = panel_id}
    IN  IF hits = {} THEN 0 ELSE Min(hits)

RECURSIVE tabs_entries(_, _, _)
tabs_entries(base, doc, i) ==
    IF i > Len(doc.tabs) THEN <<>>
    ELSE LET tab == doc.tabs[i]
             material_type == Upper(Strip(tab.label))
             tab_id == IF tab.id = None THEN <<>> ELSE tab.id
             panel == find_panel(doc, BeforeFirst(tab_id, <<"-">>))
             here == IF Truthy(material_type) /\ Truthy(tab_id) /\ panel # 0
                     THEN headers_entries(base, material_type, doc.panels[panel].headers, 1)
                     ELSE <<>>
         IN  here \o tabs_entries(base, doc, i + 1)

structured_entries(base, doc) ==
    IF doc.tablist THEN tabs_entries(base, doc, 1) ELSE <<>>

\* soup.find_all('img', {'data-src': True}): every lazy-loaded image of the document
RECURSIVE panel_imgs(_, _, _, _)
panel_imgs(panels, i, h, c) ==
    IF i > Len(panels) THEN <<>>
    ELSE IF h > Len(panels[i].headers) THEN panel_imgs(panels, i + 1, 1, 1)
    ELSE IF c > Len(panels[i].headers[h].cells) THEN panel_imgs(panels, i, h + 1, 1)
    ELSE LET cell == panels[i].headers[h].cells[c]
         IN  (IF cell.hasImg THEN <<[dataSrc |-> cell.dataSrc, alt |-> cell.alt]>> ELSE <<>>)
                \o panel_imgs(panels, i, h, c + 1)

all_images(doc) == panel_imgs(doc.panels, 1, 1, 1) \o doc.extraImgs

\* the fallback 'general search'
flat_entries(doc) ==
    LET imgs == all_images(doc)
    IN  [i \in 1..Len(imgs) |->
            [material |-> W_Unknown, category |-> W_General,
             entry |-> [color_caption |-> <<>>,
                        color_name |-> IF imgs[i].alt = None THEN W_Finish_Item
                                       ELSE imgs[i].alt,
                        color_url |-> BeforeFirst(imgs[i].dataSrc, W_jcr_content)]]]

\* finishes_data[material_type][category_name].append(entry), in order of discovery
Grouped(triples) ==
    LET materials == {t.material : t \in Range(triples)}
        categories(m) == {t.category : t \in {u \in Range(triples) : u.material = m}}
        chosen(m, c) == SelectSeq(triples, LAMBDA t : t.material = m /\ t.category = c)
    IN  [m \in materials |->
            [c \in categories(m) |->
                [i \in 1..Len(chosen(m, c)) |-> chosen(m, c)[i].entry]]]

\* a variant that runs the general search whatever the structured parse found
parse_finishes_always_scanning(base, doc) ==
    Grouped(structured_entries(base, doc) \o flat_entries(doc))

parse_finishes(base, doc) ==
    LET structured == structured_entries(base, doc)
    IN  IF structured # <<>> THEN Grouped(structured) ELSE Grouped(flat_entries(doc))

\* the empty dict finishes_data starts as
NoFinishes == <<>>

\* requests.get raises on a URL without scheme and host, and on a network error
fetch_raises(p, full_url) == p.response.raises \/ ~IsAbsoluteUrl(full_url)

\* a variant that parses the body whatever the status of the response
extract_coverings_ignoring_status(p) ==
    LET include_url == include_url_of(p)
        full_url == IF StartsWith(include_url, <<"/">>)
                    THEN urljoin(BaseUrl(p.url), include_url)
                    ELSE include_url
    IN  IF include_url = None THEN [value |-> NoFinishes, fetched |-> <<>>]
        ELSE IF ~Truthy(include_url) THEN [value |-> NoFinishes, fetched |-> <<>>]
        ELSE IF fetch_raises(p, full_url) THEN [value |-> NoFinishes, fetched |-> <<full_url>>]
        ELSE [value |-> parse_finishes(BaseUrl(p.url), p.doc), fetched |-> <<full_url>>]

extract_coverings_and_finishes(p) ==
    LET include_url == include_url_of(p)
        full_url == IF StartsWith(include_url, <<"/">>)
                    THEN urljoin(BaseUrl(p.url), include_url)
                    ELSE include_url
    IN  IF include_url = None THEN [value |-> NoFinishes, fetched |-> <<>>]
        ELSE IF ~Truthy(include_url) THEN [value |-> NoFinishes, fetched |-> <<>>]
        ELSE IF fetch_raises(p, full_url) THEN [value |-> NoFinishes, fetched |-> <<full_url>>]
        ELSE IF p.response.status # StatusOK THEN [value |-> NoFinishes, fetched |-> <<full_url>>]
        ELSE [value |-> parse_finishes(BaseUrl(p.url), p.doc), fetched |-> <<full_url>>]

(***************************************************************************)
(* The pages the model explores.  Sample texts and URLs first.             *)
(***************************************************************************)
PageUrl == <<"h", "t", "t", "p", "s", ":", "/", "/", "p", "f", ".", "i", "t", "/", "p", ".", "h", "t", "m", "l">>
TxtChairX == <<"C", "h", "a", "i", "r", " ", "X">>
TxtSofa == <<" ", "S", "o", "f", "a", " ">>
TxtBlank == <<" ", " ">>
TxtHome == <<"H", "o", "m", "e">>
TxtJean == <<"J", "e", "a", "n">>
Sku1 == <<"5", "5", "6", "1", "1", "1", "1">>
Sku2 == <<"7", "6", "5", "4", "3", "2", "1">>
UrlHome == <<"h", "t", "t", "p", "s", ":", "/", "/", "p", "f", ".", "i", "t", "/">>
ImgAbsThumb == <<"h", "t", "t", "p", "s", ":", "/", "/", "c", ".", "i", "t", "/", "0", "2", "_", "t", "h", "u", "m", "b", "n", "a", "i", "l", "s", "/", "a", ".", "j", "p", "g">>
ImgNetThumb == <<"/", "/", "c", ".", "i", "t", "/", "0", "2", "_", "t", "h", "u", "m", "b", "n", "a", "i", "l", "s", "/", "a", ".", "j", "p", "g">>
ImgRootConcept == <<"/", "0", "3", "_", "c", "o", "n", "c", "e", "p", "t", "/", "b", ".", "j", "p", "g">>
ImgRelDim == <<"0", "8", "_", "d", "i", "m", "e", "n", "s", "i", "o", "n", "i", "/", "c", ".", "j", "p", "g">>
ImgHeroIcon == <<"/", "0", "1", "_", "h", "e", "r", "o", "/", "i", "c", "o", "n", ".", "p", "n", "g">>
ImgThumbSvg == <<"h", "t", "t", "p", "s", ":", "/", "/", "c", ".", "i", "t", "/", "0", "2", "_", "t", "h", "u", "m", "b", "n", "a", "i", "l", "s", "/", "d", ".", "s", "v", "g">>
ImgPlaceholder == <<"/", "0", "3", "_", "c", "o", "n", "c", "e", "p", "t", "/", "P", "l", "a", "c", "e", "h", "o", "l", "d", "e", "r", ".", "j", "p", "g">>
ImgConceptPlaceholder == <<"/", "0", "3", "_", "c", "o", "n", "c", "e", "p", "t", "/", "p", "l", "a", "c", "e", "h", "o", "l", "d", "e", "r", ".", "j", "p", "g">>
ImgTabDesigner == <<"/", "t", "a", "b", "-", "d", "e", "s", "i", "g", "n", "e", "r", "/", "x", ".", "j", "p", "g">>
ImgRelDesigner == <<"d", "e", "s", "i", "g", "n", "e", "r", ".", "j", "p", "g">>
ImgHero == <<"/", "0", "1", "_", "h", "e", "r", "o", "/", "h", ".", "j", "p", "g">>
ImgPlain == <<"h", "t", "t", "p", "s", ":", "/", "/", "c", ".", "i", "t", "/", "x", ".", "j", "p", "g">>
ImgRootThumb == <<"/", "0", "2", "_", "t", "h", "u", "m", "b", "n", "a", "i", "l", "s", "/", "a", ".", "j", "p", "g">>
TxtSheet == <<"S", "h", "e", "e", "t">>
TxtSheetLower == <<"s", "h", "e", "e", "t", " ">>
HrefRootSheet == <<"/", "d", "/", "s", ".", "p", "d", "f">>
HrefAbsSheet == <<"h", "t", "t", "p", "s", ":", "/", "/", "p", "f", ".", "i", "t", "/", "d", "/", "s", ".", "p", "d", "f">>
TxtA == <<"A">>
TxtAB == <<"A", "|", "B">>
HrefBc == <<"B", "|", "c">>
HrefC == <<"c">>
TxtUndefined == <<"u", "n", "d", "e", "f", "i", "n", "e", "d">>
TxtUndefinedA == <<"u", "n", "d", "e", "f", "i", "n", "e", "d", " ", "A">>
HrefU == <<"/", "d", "/", "u", ".", "p", "d", "f">>
Href2d == <<"/", "d", "/", "f", "_", "2", "d", ".", "z", "i", "p">>
HrefNoUnderscore == <<"/", "d", "/", "f", ".", "p", "d", "f">>
TxtGallery == <<"G", "a", "l", "l", "e", "r", "y">>
HrefNet == <<"/", "/", "c", "d", "n", ".", "i", "t", "/", "g", ".", "z", "i", "p">>
TxtX == <<"X">>
TxtY == <<"Y">>
TxtZ == <<"Z">>
HrefX == <<"/", "d", "/", "x", ".", "p", "d", "f">>
HrefUndefinedFile == <<"/", "d", "/", "a", "_", "u", "n", "d", "e", "f", "i", "n", "e", "d", ".", "p", "d", "f">>
IncludeRoot == <<"/", "f", "/", "f", "i", "n", "i", "s", "h", "e", "s", ".", "h", "t", "m", "l">>
IncludeRel == <<"f", ".", "h", "t", "m", "l">>
IncludeOther == <<"/", "x", "/", "f", "i", "n", "i", "s", "h", "e", "s", ".", "h", "t", "m", "l">>
TxtLeather == <<"L", "e", "a", "t", "h", "e", "r">>
TxtFabric == <<" ", "f", "a", "b", "r", "i", "c">>
TxtWood == <<"W", "o", "o", "d">>
Tab0 == <<"0", "-", "t", "a", "b">>
Tab1 == <<"1", "-", "t", "a", "b">>
Tab7 == <<"7", "-", "t", "a", "b">>
Panel0 == <<"0">>
Panel1 == <<"1">>
TxtNubuck == <<"N", "u", "b", "u", "c", "k">>
TxtColors == <<"C", "o", "l", "o", "r", "s">>
SrcJcr == <<"/", "f", "/", "a", ".", "j", "p", "g", "/", "j", "c", "r", ":", "c", "o", "n", "t", "e", "n", "t", "/", "r", ".", "p", "n", "g">>
SrcRel == <<"f", "/", "b", ".", "j", "p", "g">>
SrcAbs == <<"h", "t", "t", "p", "s", ":", "/", "/", "c", ".", "i", "t", "/", "c", ".", "j", "p", "g">>
SrcExtra == <<"/", "f", "/", "e", ".", "j", "p", "g">>
TxtRed == <<"R", "e", "d">>
TxtBlue == <<"B", "l", "u", "e">>
TxtC1 == <<"C", "1">>
TxtExtra == <<"E", "x", "t", "r", "a">>
MetaEscaped == <<"A", " ", "&", "l", "t", ";", "b", "&", "g", "t", ";", "f", "i", "n", "e", "&", "l", "t", ";", "/", "b", "&", "g", "t", ";", " ", "c", "h", "a", "i", "r">>
MetaOnlyTags == <<"<", "b", ">", "<", "/", "b", ">">>
MetaOg == <<"O", "g", " ", "t", "e", "x", "t">>
HtmlShortInLongTag == <<"<", "a", " ", "h", "r", "e", "f", "=", "'", "h", "t", "t", "p", "s", ":", "/", "/", "p", "f", ".", "i", "t", "/", "a", "a", "a", "a", "a", "a", "a", "a", "a", "a", "'", ">", "o", "k", "<", "/", "a", ">">>
TagOpenA == <<"<", "a", " ", "x", "=", "'">>
TagCloseA == <<"'", ">", "o", "k", "<", "/", "a", ">">>
TagB == <<"<", "b", ">">>
TagEndB == <<"<", "/", "b", ">">>

\* texts around the length thresholds of the description, biography and concept
Plain(n) == Rep("x", n)
Text25 == Plain(DescriptionMinLen + 5)
Text20 == Plain(DescriptionMinLen)
Text80 == Plain(BioMinLen - 20)
Text150 == TagB \o Plain(BioMinLen + 50) \o TagEndB
Markup110 == TagOpenA \o Plain(BioMinLen) \o TagCloseA
Text60 == Plain(ConceptMinLen + 10)
Text50 == Plain(ConceptMinLen)

JsonLd(present, valid, top, list, entries) ==
    [present |-> present, valid |-> valid, top |-> top, list |-> list, entries |-> entries]
Entry(kind, item, name, id) == [kind |-> kind, item |-> item, name |-> name, id |-> id]

NoJsonLd == JsonLd(FALSE, FALSE, "other", "missing", <<>>)

EntrySamples ==
    { Entry("obj", "obj", TxtHome, UrlHome),
      Entry("obj", "obj", TxtChairX, PageUrl),
      Entry("obj", "missing", None, None),
      Entry("obj", "other", None, None),
      Entry("other", "missing", None, None) }

JsonLdSamples ==
    { NoJsonLd,
      JsonLd(TRUE, FALSE, "other", "missing", <<>>),
      JsonLd(TRUE, TRUE, "other", "missing", <<>>) }
    \cup { JsonLd(TRUE, TRUE, "obj", k, <<>>) :
             k \in {"missing", "null", "zero", "number", "emptystring", "string",
                    "emptydict", "dict"} }
    \cup { JsonLd(TRUE, TRUE, "obj", "list", es) : es \in SeqsUpTo(EntrySamples, MaxCrumbs) }

NavItem(link, linkSpan, itemSpan, href) ==
    [link |-> link, linkSpan |-> linkSpan, itemSpan |-> itemSpan, href |-> href]

NavItemSamples ==
    { NavItem(TRUE, TxtHome, TxtHome, UrlHome),
      NavItem(FALSE, None, TxtSofa, None),
      NavItem(TRUE, None, TxtChairX, UrlHome),
      NavItem(FALSE, None, None, None) }

NoNav == [present |-> FALSE, items |-> <<>>]
NavSamples == {NoNav} \cup {[present |-> TRUE, items |-> its] : its \in SeqsUpTo(NavItemSamples, MaxCrumbs)}

Para(inCmpText, html) == [inCmpText |-> inCmpText, html |-> html]
ParaSamples ==
    { Para(c, h) : c \in BOOLEAN, h \in {TxtBlank, Text20, Text25, HtmlShortInLongTag} }

BioSamples == {None, Text80, Text150, Markup110}
NoBio == <<None, None, None, None>>

Img(src, dataSrc, lazySrc, hero, heroCls) ==
    [src |-> src, dataSrc |-> dataSrc, lazySrc |-> lazySrc, hero |-> hero, heroCls |-> heroCls]

ImgSamples ==
    { Img(ImgAbsThumb, None, None, FALSE, FALSE),
      Img(None, ImgNetThumb, None, FALSE, FALSE),
      Img(ImgRootConcept, None, None, FALSE, FALSE),
      Img(None, None, ImgRelDim, FALSE, FALSE),
      Img(ImgHeroIcon, None, None, TRUE, FALSE),
      Img(ImgThumbSvg, None, None, FALSE, FALSE),
      Img(ImgConceptPlaceholder, ImgPlaceholder, None, FALSE, FALSE),
      Img(None, ImgTabDesigner, None, FALSE, FALSE),
      Img(None, ImgRelDesigner, None, FALSE, FALSE),
      Img(ImgHero, None, None, TRUE, TRUE),
      Img(ImgPlain, ImgRootThumb, None, FALSE, FALSE),
      Img(<<>>, ImgRootConcept, None, FALSE, TRUE) }

Meta(found, content) == [found |-> found, content |-> content]
NoMeta == Meta(FALSE, None)
MetaSamples == {NoMeta, Meta(TRUE, None), Meta(TRUE, <<>>), Meta(TRUE, MetaOnlyTags), Meta(TRUE, MetaEscaped)}
OgSamples == {NoMeta, Meta(TRUE, <<>>), Meta(TRUE, MetaOg)}
NoConcept == <<None, None, None, None>>
ConceptSamples ==
    { <<a, b, c, d>> : a \in {None, Text50, Text60}, b \in {None, TxtBlank, Plain(ConceptMinLen + 1)},
                       c \in {None, Text60}, d \in {None, TxtChairX} }

Link(subitem, flex, button, dataHref) ==
    [subitem |-> subitem, flex |-> flex, button |-> button, dataHref |-> dataHref]

LinkSamples ==
    { Link(TxtSheet, None, None, HrefRootSheet),
      Link(None, TxtSheetLower, None, HrefAbsSheet),
      Link(TxtA, None, None, HrefBc),
      Link(None, None, TxtAB, HrefC),
      Link(TxtUndefined, None, None, HrefU),
      Link(None, None, None, Href2d),
      Link(None, None, None, HrefNoUnderscore),
      Link(TxtBlank, None, TxtGallery, HrefNet),
      Link(TxtSheet, None, None, <<>>),
      Link(TxtX, TxtY, TxtZ, HrefX),
      Link(None, None, None, HrefUndefinedFile),
      Link(None, TxtUndefinedA, None, HrefRootSheet) }

Cell(hasImg, dataSrc, alt, caption, siblingText, nestedText) ==
    [hasImg |-> hasImg, dataSrc |-> dataSrc, alt |-> alt, caption |-> caption,
     siblingText |-> siblingText, nestedText |-> nestedText]

CellSamples ==
    { Cell(TRUE, SrcJcr, TxtRed, TxtC1, TxtRed, None),
      Cell(TRUE, SrcRel, None, None, None, TxtBlue),
      Cell(TRUE, <<>>, TxtBlue, TxtC1, TxtBlue, None),
      Cell(FALSE, <<>>, None, None, TxtRed, None) }

Tab(label, id) == [label |-> label, id |-> id]
TabSamples ==
    { <<Tab(TxtLeather, Tab0)>>,
      <<Tab(TxtLeather, Tab0), Tab(TxtFabric, Tab1)>>,
      <<Tab(TxtBlank, Tab0)>>,
      <<Tab(TxtLeather, None)>>,
      <<Tab(TxtWood, Tab7)>> }

Header(title, inItem, cells) == [title |-> title, inItem |-> inItem, cells |-> cells]
Panel(id, headers) == [id |-> id, headers |-> headers]
ExtraImg(dataSrc, alt) == [dataSrc |-> dataSrc, alt |-> alt]

Doc(tablist, tabs, panels, extraImgs) ==
    [tablist |-> tablist, tabs |-> tabs, panels |-> panels, extraImgs |-> extraImgs]

EmptyDoc == Doc(FALSE, <<>>, <<>>, <<>>)

DocSamples ==
    { Doc(tablist, tabs,
          << Panel(Panel0, <<Header(title, inItem, cells)>>),
             Panel(Panel1, <<Header(TxtColors, TRUE, <<Cell(TRUE, SrcAbs, None, None, None, None)>>)>>) >>,
          extra) :
        tablist \in BOOLEAN, tabs \in TabSamples, title \in {None, TxtNubuck},
        inItem \in BOOLEAN, cells \in SeqsUpTo(CellSamples, MaxCells),
        extra \in {<<>>, <<ExtraImg(SrcExtra, TxtExtra)>>} }

Response(raises, status) == [raises |-> raises, status |-> status]
\* some status other than 200
StatusNotFound == StatusOK + 204
ResponseSamples == {Response(TRUE, StatusOK), Response(FALSE, StatusOK), Response(FALSE, StatusNotFound)}

\* a page on which every element the extractors look for is missing
DefaultPage ==
    [ url |-> PageUrl,
      h1span |-> None, formName |-> None, jsonld |-> NoJsonLd, nav |-> NoNav,
      divSku |-> [found |-> FALSE, sku |-> None], formSku |-> None,
      designerH3 |-> None, formDesigner |-> None,
      paras |-> <<>>, scriptError |-> FALSE, bioSel |-> NoBio,
      imgs |-> <<>>,
      metaDesc |-> NoMeta, ogDesc |-> NoMeta, conceptSel |-> NoConcept,
      links |-> <<>>,
      includePrimary |-> None, includeFallback |-> None,
      response |-> Response(FALSE, StatusOK), doc |-> EmptyDoc ]

\* the pages explored: the default page with one group of elements varied
Pages ==
    { [DefaultPage EXCEPT !.h1span = a, !.formName = b, !.jsonld = j] :
        a \in {None, TxtChairX, TxtSofa, TxtBlank}, b \in {None, <<>>, TxtChairX},
        j \in JsonLdSamples }
    \cup { [DefaultPage EXCEPT !.jsonld = j, !.nav = n] :
             j \in JsonLdSamples, n \in NavSamples }
    \cup { [DefaultPage EXCEPT !.divSku = [found |-> f, sku |-> a], !.formSku = b] :
             f \in BOOLEAN, a \in {None, <<>>, Sku1}, b \in {None, <<>>, Sku2} }
    \cup { [DefaultPage EXCEPT !.designerH3 = a, !.formDesigner = b] :
             a \in {None, TxtBlank, TxtJean}, b \in {None, <<>>, TxtSofa} }
    \cup { [DefaultPage EXCEPT !.paras = ps, !.scriptError = e] :
             ps \in SeqsUpTo(ParaSamples, MaxParas), e \in BOOLEAN }
    \cup { [DefaultPage EXCEPT !.bioSel = <<a, b, c, d>>, !.scriptError = e] :
             a \in BioSamples, b \in BioSamples, c \in BioSamples, d \in BioSamples,
             e \in BOOLEAN }
    \cup { [DefaultPage EXCEPT !.imgs = is] : is \in SeqsUpTo(ImgSamples, MaxImgs) }
    \cup { [DefaultPage EXCEPT !.metaDesc = m, !.ogDesc = o, !.conceptSel = c] :
             m \in MetaSamples, o \in OgSamples, c \in ConceptSamples }
    \cup { [DefaultPage EXCEPT !.links = ls] : ls \in SeqsUpTo(LinkSamples, MaxLinks) }
    \cup { [DefaultPage EXCEPT !.includePrimary = a, !.includeFallback = b,
                               !.response = r, !.doc = d] :
             a \in {None, <<>>, IncludeRoot, IncludeRel}, b \in {None, IncludeOther},
             r \in ResponseSamples,
             d \in {EmptyDoc, Doc(FALSE, <<>>, <<>>, <<ExtraImg(SrcExtra, TxtExtra)>>)} }
    \cup { [DefaultPage EXCEPT !.includePrimary = IncludeRoot, !.doc = d] : d \in DocSamples }
    \cup { [DefaultPage EXCEPT !.includePrimary = IncludeRoot, !.response = r,
                               !.doc = Doc(FALSE, <<>>, <<>>, <<ExtraImg(SrcExtra, TxtExtra)>>),
                               !.formName = b, !.jsonld = j] :
             r \in ResponseSamples, b \in {None, TxtChairX},
             j \in {NoJsonLd, JsonLd(TRUE, TRUE, "obj", "dict", <<>>)} }

(***************************************************************************)
(* extract_all_data: the sub-extractors run one after the other, in the    *)
(* order of the source; an exception escaping one of them ends the call.   *)
(*   out     : the values gathered so far                                  *)
(*   ran     : per fallback chain, the strategies that were run            *)
(*   fetched : the URLs handed to requests.get                             *)
(*   raised  : the exception that escaped and the call it escaped from     *)
(*   record  : the returned dict, NoRecord until extract_all_data returns  *)
(***************************************************************************)
NoRecord == <<>>
NotRaised == [at |-> "none", exc |-> "none"]

RecordFields ==
    {"url", "product_name", "sku", "product_description", "concept_and_design",
     "breadcrumbs", "designer", "images", "downloads", "coverings_and_finishes"}

\* nothing extracted yet
EmptyOut ==
    [ breadcrumbs |-> <<>>, images |-> <<>>,
      designer_name |-> None, designer_bio |-> None, designer_image |-> None,
      downloads |-> <<>>, coverings_and_finishes |-> NoFinishes,
      product_name |-> None, sku |-> None,
      product_description |-> None, concept_and_design |-> None ]

EmptyRan ==
    [ breadcrumbs |-> <<>>, designer_name |-> <<>>, designer_bio |-> <<>>,
      designer_image |-> <<>>, downloads |-> <<>>, product_name |-> <<>>,
      sku |-> <<>>, product_description |-> <<>>, concept_and_design |-> <<>> ]

\* no exception pending
NoError == "none"

\* the radio of the side bar: the three modes of the script
ModeSingle == "Single URL"
ModeMultiple == "Multiple URLs"
ModeSitemap == "All Products (Sitemap)"

\* st.session_state of a new session: no key
NoSession == [k \in {} |-> <<>>]

\* the script has not run yet
UiIdle ==
    /\ session_state = NoSession
    /\ widgets = [scrape_mode |-> ModeSingle, search_term |-> <<>>]

\* the state of the calling functions while none of them runs
AppIdle ==
    /\ entry = [fn |-> "extract_all_data", save_to_json |-> FALSE]
    /\ urls = <<>>
    /\ idx = 0
    /\ all_data = <<>>
    /\ ctl = "none"
    /\ drivers = <<>>
    /\ now = 0
    /\ events = <<>>
    /\ err = NoError
    /\ data = NoRecord
    /\ sitemap = [fetch |-> "ok", wellFormed |-> TRUE, urls |-> <<>>]
    /\ sitemap_urls = <<>>
    /\ UiIdle

\* extract_all_data is called on a page
Init ==
    /\ page \in Pages
    /\ pc = "extract_breadcrumbs"
    /\ out = EmptyOut
    /\ ran = EmptyRan
    /\ raised = NotRaised
    /\ fetched = <<>>
    /\ record = NoRecord
    /\ AppIdle

\* one sub-extractor call of extract_all_data: its value is kept, or its
\* exception propagates
Call(here, next, field, r) ==
    /\ pc = here
    /\ IF r.exc = "none"
       THEN /\ out' = [out EXCEPT ![field] = r.value]
            /\ ran' = [ran EXCEPT ![field] = r.ran]
            /\ pc' = next
            /\ UNCHANGED raised
       ELSE /\ raised' = [at |-> here, exc |-> r.exc]
            /\ pc' = "raised"
            /\ UNCHANGED <<out, ran>>
    /\ UNCHANGED <<page, fetched, record, appVars, uiVars>>

ExtractBreadcrumbs ==
    Call("extract_breadcrumbs", "extract_images_by_category", "breadcrumbs",
         extract_breadcrumbs(page))

ExtractImagesByCategory ==
    /\ pc = "extract_images_by_category"
    /\ out' = [out EXCEPT !.images = extract_images_by_category(page)]
    /\ pc' = "extract_designer"
    /\ UNCHANGED <<page, ran, raised, fetched, record, appVars, uiVars>>

ExtractDesigner ==
    Call("extract_designer", "extract_designer_bio", "designer_name", extract_designer(page))

ExtractDesignerBio ==
    Call("extract_designer_bio", "extract_designer_image", "designer_bio",
         extract_designer_bio(page))

ExtractDesignerImage ==
    Call("extract_designer_image", "extract_downloads", "designer_image",
         extract_designer_image(page))

\* the methods run for each link with a data-href, and the label they gave
download_labels(p) ==
    [i \in 1..Len(p.links) |->
        IF Truthy(p.links[i].dataHref) THEN download_label(p.links[i])
        ELSE [value |-> None, ran |-> <<>>]]

ExtractDownloads ==
    /\ pc = "extract_downloads"
    /\ out' = [out EXCEPT !.downloads = extract_downloads(page)]
    /\ ran' = [ran EXCEPT !.downloads = download_labels(page)]
    /\ pc' = "extract_coverings_and_finishes"
    /\ UNCHANGED <<page, raised, fetched, record, appVars, uiVars>>

ExtractCoveringsAndFinishes ==
    /\ pc = "extract_coverings_and_finishes"
    /\ LET r == extract_coverings_and_finishes(page)
       IN  /\ out' = [out EXCEPT !.coverings_and_finishes = r.value]
           /\ fetched' = fetched \o r.fetched
    /\ pc' = "extract_product_name"
    /\ UNCHANGED <<page, ran, raised, record, appVars, uiVars>>

ExtractProductName ==
    Call("extract_product_name", "extract_sku", "product_name", extract_product_name(page))

ExtractSku ==
    Call("extract_sku", "extract_product_description", "sku", extract_sku(page))

ExtractProductDescription ==
    Call("extract_product_description", "extract_concept_and_design", "product_description",
         extract_product_description(page))

ExtractConceptAndDesign ==
    Call("extract_concept_and_design", "return", "concept_and_design",
         extract_concept_and_design(page))

\* breadcrumbs_text = [item['name'] for item in breadcrumbs_data]
breadcrumbs_text(crumbs) == [i \in 1..Len(crumbs) |-> crumbs[i].name]

\* the dict extract_all_data returns
assemble(p, o) ==
    [ url |-> p.url,
      product_name |-> o.product_name,
      sku |-> o.sku,
      product_description |-> o.product_description,
      concept_and_design |-> o.concept_and_design,
      breadcrumbs |-> breadcrumbs_text(o.breadcrumbs),
      designer |-> [name |-> o.designer_name, bio |-> o.designer_bio,
                    image |-> o.designer_image],
      images |-> o.images,
      downloads |-> o.downloads,
      coverings_and_finishes |-> o.coverings_and_finishes ]

Return ==
    /\ pc = "return"
    /\ record' = assemble(page, out)
    /\ pc' = "done"
    /\ UNCHANGED <<page, out, ran, raised, fetched, appVars, uiVars>>

Next ==
    \/ ExtractBreadcrumbs
    \/ ExtractImagesByCategory
    \/ ExtractDesigner
    \/ ExtractDesignerBio
    \/ ExtractDesignerImage
    \/ ExtractDownloads
    \/ ExtractCoveringsAndFinishes
    \/ ExtractProductName
    \/ ExtractSku
    \/ ExtractProductDescription
    \/ ExtractConceptAndDesign
    \/ Return

Spec == Init /\ [][Next]_vars

(***************************************************************************)
(* scrape_product_from_url and scrape_product_from_file (src/scraper.py),  *)
(* and scrape_multiple_urls (src/app.py), which calls the former for each  *)
(* URL of its input.                                                       *)
(*   entry    : the function called, and its save_to_json argument         *)
(*   urls     : the URLs to scrape (one URL for scrape_product_from_file)  *)
(*   idx      : the position in urls of the URL at hand                    *)
(*   all_data : the records gathered by scrape_multiple_urls               *)
(*   ctl      : the statement about to run                                 *)
(*   drivers  : the browser sessions created so far; quits counts the      *)
(*              calls of driver.quit(), implicit_wait is the time a lookup *)
(*              may poll for a missing element                             *)
(*   now      : the time, in seconds                                       *)
(*   events   : the calls made so far, with their times                    *)
(*   err      : the exception propagating, NoError when there is none      *)
(*   data     : the value extract_all_data returned                        *)
(***************************************************************************)
\* WebDriverWait(driver, 10)
WaitBudget == 10
\* driver.implicitly_wait(3) in scrape_product_from_url
SettleDelay == 3
\* time.sleep(1) in scrape_multiple_urls
PacingDelay == 1

UrlChair == BaseUrl(PageUrl) \o <<"/", "a">>
UrlSlow == BaseUrl(PageUrl) \o <<"/", "b">>
UrlBroken == BaseUrl(PageUrl) \o <<"/", "c">>
UrlHang == BaseUrl(PageUrl) \o <<"/", "d">>
UrlDown == BaseUrl(PageUrl) \o <<"/", "e">>

UrlSamples == {UrlChair, UrlSlow, UrlBroken, UrlHang, UrlDown}
\* the pages saved to a file: those that could be loaded
FileSamples == {UrlChair, UrlSlow, UrlBroken}

\* what the browser meets at a URL: driver.get raises (down), or the page is
\* loaded and its body is present after bodyAfter seconds, or never (body)
Site(u) ==
    CASE u = UrlChair ->
            [page |-> [DefaultPage EXCEPT !.url = u, !.formName = TxtChairX],
             down |-> FALSE, body |-> TRUE, bodyAfter |-> 0]
      [] u = UrlSlow ->
            [page |-> [DefaultPage EXCEPT !.url = u],
             down |-> FALSE, body |-> TRUE, bodyAfter |-> PacingDelay]
      [] u = UrlBroken ->
            [page |-> [DefaultPage EXCEPT !.url = u,
                                          !.jsonld = JsonLd(TRUE, TRUE, "obj", "null", <<>>)],
             down |-> FALSE, body |-> TRUE, bodyAfter |-> 0]
      [] u = UrlHang ->
            [page |-> [DefaultPage EXCEPT !.url = u],
             down |-> FALSE, body |-> FALSE, bodyAfter |-> 0]
      [] u = UrlDown ->
            [page |-> [DefaultPage EXCEPT !.url = u],
             down |-> TRUE, body |-> FALSE, bodyAfter |-> 0]

Event(kind, n, t, ok) == [kind |-> kind, n |-> n, t |-> t, ok |-> ok]

\* where control goes when scrape_product_from_url / _from_file ends: back
\* into the try of scrape_multiple_urls, or out of the function called
Leave(e) ==
    IF entry.fn = "scrape_multiple_urls" THEN "collect"
    ELSE IF e = NoError THEN "returned" ELSE "raised"

\* where control goes when the try block of the function ends: to the inner
\* finally of scrape_product_from_file, or to the finally that quits the driver
Finally == IF entry.fn = "scrape_product_from_file" THEN "unlink" ELSE "quit"

\* for i, url in enumerate(urls): ... data = scrape_product_from_url(url, ...)
ForUrl ==
    /\ ctl = "for"
    /\ idx <= Len(urls)
    /\ events' = Append(events, Event("start", idx, now, TRUE))
    /\ ctl' = "setup_driver"
    /\ UNCHANGED <<extractVars, entry, urls, idx, all_data, drivers, now, err, data,
                   sitemap, sitemap_urls, uiVars>>

\* the loop is over: return all_data
ForDone ==
    /\ ctl = "for"
    /\ idx > Len(urls)
    /\ ctl' = "returned"
    /\ UNCHANGED <<extractVars, entry, urls, idx, all_data, drivers, now, events, err, data,
                   sitemap, sitemap_urls, uiVars>>

\* driver = setup_driver(), before the try: it gives a session or raises
SetupDriver ==
    /\ ctl = "setup_driver"
    /\ \E ok \in BOOLEAN :
          IF ok
          THEN /\ drivers' = Append(drivers, [quits |-> 0, implicit_wait |-> 0])
               /\ ctl' = IF entry.fn = "scrape_product_from_file" THEN "open_file" ELSE "get"
               /\ UNCHANGED <<err, events>>
          ELSE /\ err' = "WebDriverException"
               /\ events' = Append(events, Event("end", idx, now, FALSE))
               /\ ctl' = Leave("WebDriverException")
               /\ UNCHANGED drivers
    /\ UNCHANGED <<extractVars, entry, urls, idx, all_data, now, data, sitemap, sitemap_urls, uiVars>>

\* scrape_product_from_file: the HTML file is read and copied to a temporary
\* file, or open raises
OpenFile ==
    /\ ctl = "open_file"
    /\ \E ok \in BOOLEAN :
          IF ok THEN ctl' = "get" /\ UNCHANGED err
          ELSE err' = "FileNotFoundError" /\ ctl' = "quit"
    /\ UNCHANGED <<extractVars, entry, urls, idx, all_data, drivers, now, events, data,
                   sitemap, sitemap_urls, uiVars>>

\* driver.get(url)
Get ==
    /\ ctl = "get"
    /\ IF Site(urls[idx]).down
       THEN err' = "WebDriverException" /\ ctl' = Finally
       ELSE ctl' = "wait" /\ UNCHANGED err
    /\ UNCHANGED <<extractVars, entry, urls, idx, all_data, drivers, now, events, data,
                   sitemap, sitemap_urls, uiVars>>

\* WebDriverWait(driver, 10).until(presence_of_element_located((By.TAG_NAME, "body")))
WaitBody ==
    /\ ctl = "wait"
    /\ LET s == Site(urls[idx])
       IN  IF s.body
           THEN /\ now' = now + s.bodyAfter
                /\ events' = Append(events, Event("body", idx, now + s.bodyAfter, TRUE))
                /\ ctl' = IF entry.fn = "scrape_product_from_file" THEN "extract"
                          ELSE "implicitly_wait"
                /\ UNCHANGED err
           ELSE /\ now' = now + WaitBudget
                /\ err' = "TimeoutException"
                /\ ctl' = Finally
                /\ UNCHANGED events
    /\ UNCHANGED <<extractVars, entry, urls, idx, all_data, drivers, data, sitemap, sitemap_urls, uiVars>>

\* driver.implicitly_wait(3): sets the time a later element lookup may poll,
\* and returns at once
ImplicitlyWait ==
    /\ ctl = "implicitly_wait"
    /\ drivers' = [drivers EXCEPT ![Len(drivers)].implicit_wait = SettleDelay]
    /\ ctl' = "extract"
    /\ UNCHANGED <<extractVars, entry, urls, idx, all_data, now, events, err, data,
                   sitemap, sitemap_urls, uiVars>>

\* scraper = PoltronaFrauScraper(driver, url); scraper.extract_all_data() is called
StartExtraction ==
    /\ ctl = "extract"
    /\ page' = Site(urls[idx]).page
    /\ pc' = "extract_breadcrumbs"
    /\ out' = EmptyOut
    /\ ran' = EmptyRan
    /\ raised' = NotRaised
    /\ fetched' = <<>>
    /\ record' = NoRecord
    /\ events' = Append(events, Event("extract", idx, now, TRUE))
    /\ ctl' = "extract_all_data"
    /\ UNCHANGED <<entry, urls, idx, all_data, drivers, now, err, data, sitemap, sitemap_urls, uiVars>>

\* extract_all_data returns the record, or its exception propagates
EndExtraction ==
    /\ ctl = "extract_all_data"
    /\ pc \in {"done", "raised"}
    /\ IF pc = "done"
       THEN /\ data' = record
            /\ ctl' = IF entry.save_to_json THEN "save" ELSE Finally
            /\ UNCHANGED err
       ELSE /\ err' = raised.exc
            /\ ctl' = Finally
            /\ UNCHANGED data
    /\ pc' = "idle"
    /\ UNCHANGED <<page, out, ran, raised, fetched, record, entry, urls, idx, all_data,
                   drivers, now, events, sitemap, sitemap_urls, uiVars>>

\* re.sub(r'[^\w\s-]', '', product_name) raises when product_name is None
save_raises(d) == d.product_name = None

\* if save_to_json: save_scraped_data_to_json(data)
Save ==
    /\ ctl = "save"
    /\ IF save_raises(data)
       THEN err' = "TypeError" /\ data' = NoRecord
       ELSE UNCHANGED <<err, data>>
    /\ ctl' = Finally
    /\ UNCHANGED <<extractVars, entry, urls, idx, all_data, drivers, now, events,
                   sitemap, sitemap_urls, uiVars>>

\* scrape_product_from_file, inner finally: os.unlink(temp_file_path), which
\* may raise in its turn
Unlink ==
    /\ ctl = "unlink"
    /\ \E ok \in BOOLEAN :
          IF ok THEN UNCHANGED <<err, data>>
          ELSE err' = "OSError" /\ data' = NoRecord
    /\ ctl' = "quit"
    /\ UNCHANGED <<extractVars, entry, urls, idx, all_data, drivers, now, events,
                   sitemap, sitemap_urls, uiVars>>

\* a variant that quits the driver at the end of the try block, not in a finally
QuitUnlessRaised ==
    /\ ctl = "quit"
    /\ drivers' = IF err = NoError
                  THEN [drivers EXCEPT ![Len(drivers)].quits = @ + 1]
                  ELSE drivers
    /\ events' = Append(events, Event("end", idx, now, err = NoError))
    /\ ctl' = Leave(err)
    /\ UNCHANGED <<extractVars, entry, urls, idx, all_data, now, err, data, sitemap, sitemap_urls, uiVars>>

\* finally: driver.quit(); then the function returns data or raises
Quit ==
    /\ ctl = "quit"
    /\ drivers' = [drivers EXCEPT ![Len(drivers)].quits = @ + 1]
    /\ events' = Append(events, Event("end", idx, now, err = NoError))
    /\ ctl' = Leave(err)
    /\ UNCHANGED <<extractVars, entry, urls, idx, all_data, now, err, data, sitemap, sitemap_urls, uiVars>>

\* a variant that puts the newest record first
collected_newest_first(all, e, d) ==
    IF e = NoError /\ DOMAIN d # {} THEN <<d>> \o all ELSE all

\* try: data = ...; if data: all_data.append(data)  except Exception: st.warning(...)
collected(all, e, d) ==
    IF e = NoError /\ DOMAIN d # {} THEN Append(all, d) ELSE all

Collect ==
    /\ ctl = "collect"
    /\ all_data' = collected(all_data, err, data)
    /\ data' = NoRecord
    /\ ctl' = "sleep"
    /\ UNCHANGED <<extractVars, entry, urls, idx, drivers, now, events, err, sitemap, sitemap_urls, uiVars>>

\* a variant that sleeps only after a URL that was scraped
pacing_after_success(e) == IF e = NoError THEN PacingDelay ELSE 0

\* the time spent in time.sleep(1), which follows the try statement
pacing(e) == PacingDelay

\* progress_bar.progress(...); time.sleep(1); then the next URL
Sleep ==
    /\ ctl = "sleep"
    /\ now' = now + pacing(err)
    /\ idx' = idx + 1
    /\ err' = NoError
    /\ ctl' = "for"
    /\ UNCHANGED <<extractVars, entry, urls, all_data, drivers, events, data,
                   sitemap, sitemap_urls, uiVars>>

\* scrape_multiple_urls(urls), scrape_product_from_url(url, save_to_json) or
\* scrape_product_from_file(path, url, save_to_json) is called
ScrapeInit ==
    /\ page = DefaultPage
    /\ pc = "idle"
    /\ out = EmptyOut
    /\ ran = EmptyRan
    /\ raised = NotRaised
    /\ fetched = <<>>
    /\ record = NoRecord
    /\ \/ /\ entry = [fn |-> "scrape_multiple_urls", save_to_json |-> FALSE]
          /\ urls \in SeqsUpTo(UrlSamples, MaxUrls)
          /\ ctl = "for"
          /\ events = <<>>
       \/ /\ entry \in [fn : {"scrape_product_from_url", "scrape_product_from_file"},
                        save_to_json : BOOLEAN]
          /\ urls \in {<<u>> : u \in IF entry.fn = "scrape_product_from_file"
                                      THEN FileSamples ELSE UrlSamples}
          /\ ctl = "setup_driver"
          /\ events = <<Event("start", 1, 0, TRUE)>>
    /\ idx = 1
    /\ all_data = <<>>
    /\ drivers = <<>>
    /\ now = 0
    /\ err = NoError
    /\ data = NoRecord
    /\ sitemap = [fetch |-> "ok", wellFormed |-> TRUE, urls |-> <<>>]
    /\ sitemap_urls = <<>>
    /\ UiIdle

ScrapeNext ==
    \/ ForUrl
    \/ ForDone
    \/ SetupDriver
    \/ OpenFile
    \/ Get
    \/ WaitBody
    \/ ImplicitlyWait
    \/ StartExtraction
    \/ Next
    \/ EndExtraction
    \/ Save
    \/ Unlink
    \/ Quit
    \/ Collect
    \/ Sleep

ScrapeSpec == ScrapeInit /\ [][ScrapeNext]_vars

\* every statement that can run does run in the end
ScrapeFairSpec == ScrapeSpec /\ WF_vars(ScrapeNext)

(***************************************************************************)
(* get_sitemap_urls (src/app.py).                                          *)
(*   sitemap      : what requests.get meets: fetch is "ok", "error" (the   *)
(*                  request raises) or "status" (raise_for_status raises); *)
(*                  wellFormed says that ET.fromstring accepts the body;   *)
(*                  urls are the <url> elements in document order, each    *)
(*                  with hasLoc (it has a <loc> child) and text (the text  *)
(*                  of the <loc>, None when the element is empty)          *)
(*   sitemap_urls : the list urls of the function, then what it returned   *)
(***************************************************************************)
W_products == <<"/", "w", "w", "/", "e", "n", "/", "p", "r", "o", "d", "u", "c", "t", "s", "/">>
W_html == <<".", "h", "t", "m", "l">>

LocProduct == <<"h", "t", "t", "p", "s", ":", "/", "/", "p", "f", ".", "i", "t", "/", "w", "w", "/", "e", "n", "/", "p", "r", "o", "d", "u", "c", "t", "s", "/", "s", "o", "f", "a", ".", "h", "t", "m", "l">>
LocCategory == <<"h", "t", "t", "p", "s", ":", "/", "/", "p", "f", ".", "i", "t", "/", "w", "w", "/", "e", "n", "/", "p", "r", "o", "d", "u", "c", "t", "s", "/", "s", "o", "f", "a", "s", ".", "1", "2", ".", "h", "t", "m", "l">>
LocOther == <<"h", "t", "t", "p", "s", ":", "/", "/", "p", "f", ".", "i", "t", "/", "w", "w", "/", "e", "n", "/", "s", "t", "o", "r", "e", "s", ".", "h", "t", "m", "l">>
LocQuery == <<"h", "t", "t", "p", "s", ":", "/", "/", "p", "f", ".", "i", "t", "/", "s", ".", "h", "t", "m", "l", "?", "r", "=", "/", "w", "w", "/", "e", "n", "/", "p", "r", "o", "d", "u", "c", "t", "s", "/">>
LocCategoryPadded == LocCategory \o <<" ">>

UrlElem(hasLoc, text) == [hasLoc |-> hasLoc, text |-> text]

UrlElemSamples ==
    { UrlElem(TRUE, LocProduct), UrlElem(TRUE, LocCategory), UrlElem(TRUE, LocOther),
      UrlElem(TRUE, LocQuery), UrlElem(TRUE, LocCategoryPadded),
      UrlElem(TRUE, None), UrlElem(FALSE, None) }

SitemapSamples ==
    { [fetch |-> "ok", wellFormed |-> TRUE, urls |-> us] :
         us \in SeqsUpTo(UrlElemSamples, MaxLocs) }
    \cup { [fetch |-> f, wellFormed |-> w, urls |-> <<UrlElem(TRUE, LocProduct)>>] :
             f \in {"ok", "error", "status"}, w \in BOOLEAN }

IsDigit(c) == c \in {"0", "1", "2", "3", "4", "5", "6", "7", "8", "9"}

\* re.search(r'\.\d+\.html$', url): '$' matches at the end of the string and
\* before a newline that ends it
numbered_html(url) ==
    LET ends == {Len(url)} \cup
                (IF Len(url) > 0 /\ url[Len(url)] = "\n" THEN {Len(url) - 1} ELSE {})
    IN  \E e \in ends :
           /\ e >= Len(W_html)
           /\ SubSeq(url, e - Len(W_html) + 1, e) = W_html
           /\ \E d \in 2..(e - Len(W_html)) :
                 /\ url[d - 1] = "."
                 /\ \A k \in d..(e - Len(W_html)) : IsDigit(url[k])

\* if '/ww/en/products/' in url: if not re.search(...): urls.append(url)
is_product_url(url) == Contains(url, W_products) /\ ~numbered_html(url)

\* response = requests.get(..., timeout=30); response.raise_for_status()
SitemapGet ==
    /\ ctl = "requests_get"
    /\ IF sitemap.fetch = "ok"
       THEN ctl' = "fromstring" /\ UNCHANGED err
       ELSE /\ err' = IF sitemap.fetch = "error" THEN "ConnectionError" ELSE "HTTPError"
            /\ ctl' = "except"
    /\ UNCHANGED <<extractVars, entry, urls, idx, all_data, drivers, now, events, data,
                   sitemap, sitemap_urls, uiVars>>

\* root = ET.fromstring(response.content); urls = []
SitemapParse ==
    /\ ctl = "fromstring"
    /\ IF sitemap.wellFormed
       THEN ctl' = "for_url_elem" /\ idx' = 1 /\ sitemap_urls' = <<>> /\ UNCHANGED err
       ELSE err' = "ParseError" /\ ctl' = "except" /\ UNCHANGED <<idx, sitemap_urls>>
    /\ UNCHANGED <<extractVars, entry, urls, all_data, drivers, now, events, data, sitemap, uiVars>>

\* the body of the loop over the <url> elements: the membership test raises
\* TypeError when the text of the <loc> is None
SitemapUrlElem ==
    /\ ctl = "for_url_elem"
    /\ idx <= Len(sitemap.urls)
    /\ LET e == sitemap.urls[idx]
       IN  IF ~e.hasLoc
           THEN idx' = idx + 1 /\ UNCHANGED <<ctl, err, sitemap_urls>>
           ELSE IF e.text = None
           THEN err' = "TypeError" /\ ctl' = "except" /\ UNCHANGED <<idx, sitemap_urls>>
           ELSE /\ sitemap_urls' = IF is_product_url(e.text)
                                   THEN Append(sitemap_urls, e.text) ELSE sitemap_urls
                /\ idx' = idx + 1
                /\ UNCHANGED <<ctl, err>>
    /\ UNCHANGED <<extractVars, entry, urls, all_data, drivers, now, events, data, sitemap, uiVars>>

\* return urls
SitemapReturn ==
    /\ ctl = "for_url_elem"
    /\ idx > Len(sitemap.urls)
    /\ ctl' = "returned"
    /\ UNCHANGED <<extractVars, entry, urls, idx, all_data, drivers, now, events, err, data,
                   sitemap, sitemap_urls, uiVars>>

\* except Exception as e: st.error(...); return []
SitemapExcept ==
    /\ ctl = "except"
    /\ sitemap_urls' = <<>>
    /\ ctl' = "returned"
    /\ UNCHANGED <<extractVars, entry, urls, idx, all_data, drivers, now, events, err, data,
                   sitemap, uiVars>>

\* get_sitemap_urls() is called
SitemapInit ==
    /\ page = DefaultPage
    /\ pc = "idle"
    /\ out = EmptyOut
    /\ ran = EmptyRan
    /\ raised = NotRaised
    /\ fetched = <<>>
    /\ record = NoRecord
    /\ entry = [fn |-> "get_sitemap_urls", save_to_json |-> FALSE]
    /\ urls = <<>>
    /\ idx = 0
    /\ all_data = <<>>
    /\ ctl = "requests_get"
    /\ drivers = <<>>
    /\ now = 0
    /\ events = <<>>
    /\ err = NoError
    /\ data = NoRecord
    /\ sitemap \in SitemapSamples
    /\ sitemap_urls = <<>>
    /\ UiIdle

SitemapNext ==
    \/ SitemapGet
    \/ SitemapParse
    \/ SitemapUrlElem
    \/ SitemapReturn
    \/ SitemapExcept

SitemapSpec == SitemapInit /\ [][SitemapNext]_vars

(***************************************************************************)
(* Properties.                                                             *)
(***************************************************************************)
\* the steps of extract_all_data, in order
Steps ==
    << "extract_breadcrumbs", "extract_images_by_category", "extract_designer",
       "extract_designer_bio", "extract_designer_image", "extract_downloads",
       "extract_coverings_and_finishes", "extract_product_name", "extract_sku",
       "extract_product_description", "extract_concept_and_design", "return", "done" >>

\* the call named step has returned
Ran(step) == pc # "raised" /\ IndexOf(Steps, pc) > IndexOf(Steps, step)

ScalarChains ==
    {"product_name", "sku", "designer_name", "designer_bio", "designer_image",
     "concept_and_design", "product_description"}

\* what strategy k of a chain yields on the page, taken alone
StrategyOutcome(chain, k) ==
    CASE chain = "product_name" ->
            (CASE k = 1 -> product_name_heading(page)
               [] k = 2 -> product_name_form(page)
               [] k = 3 -> product_name_jsonld(page))
      [] chain = "sku" -> IF k = 1 THEN sku_container(page) ELSE sku_form(page)
      [] chain = "designer_name" -> IF k = 1 THEN designer_heading(page) ELSE designer_form(page)
      [] chain = "designer_bio" -> bio_strategy(page, k)
      [] chain = "designer_image" ->
            IF k <= Len(DesignerSelectors) THEN designer_image_selector(page, k)
            ELSE designer_image_scan(page)
      [] chain = "concept_and_design" ->
            (CASE k = 1 -> concept_meta(page.metaDesc)
               [] k = 2 -> concept_meta(page.ogDesc)
               [] OTHER -> concept_selector(page, k - 2))
      [] chain = "product_description" ->
            IF k = 1 THEN description_primary(page) ELSE description_fallback(page)

NumStrategies(chain) ==
    CASE chain = "product_name" -> 3
      [] chain = "sku" -> 2
      [] chain = "designer_name" -> 2
      [] chain = "designer_bio" -> Len(page.bioSel)
      [] chain = "designer_image" -> Len(DesignerSelectors) + 1
      [] chain = "concept_and_design" -> Len(page.conceptSel) + 2
      [] chain = "product_description" -> 2

\* the length a chain requires of its result, where it requires one
LongEnough(chain, k, v) ==
    CASE chain = "designer_bio" -> Len(v) > BioMinLen
      [] chain = "product_description" -> Len(v) > DescriptionMinLen
      [] chain = "concept_and_design" /\ k > 2 -> Len(v) > ConceptMinLen
      [] OTHER -> TRUE

\* strategy k yields a valid result: non-empty, and long enough where that applies
StrategyValid(chain, k) ==
    LET s == StrategyOutcome(chain, k)
    IN  s.ret /\ Truthy(s.value) /\ LongEnough(chain, k, s.value)

\* the label method k of the download chain gives for a link
LabelOutcome(link, k) ==
    IF k <= 3 THEN label_strategy(link, k) ELSE label_from_filename(link.dataHref)

\* C1: in every fallback chain, once strategy k yields a valid result no later
\* strategy is run and the value returned is strategy k's result; the strategies
\* run are 1, 2, ..., in order.
C1_FirstValidStrategyWins ==
    /\ \A c \in ScalarChains :
          \A i \in 1..Len(ran[c]) :
             /\ ran[c][i] = i
             /\ StrategyValid(c, i) =>
                   /\ i = Len(ran[c])
                   /\ out[c] = StrategyOutcome(c, i).value
    /\ \A n \in 1..Len(ran.downloads) :
          \A i \in 1..Len(ran.downloads[n].ran) :
             /\ ran.downloads[n].ran[i] = i
             /\ Truthy(LabelOutcome(page.links[n], i)) =>
                   /\ i = Len(ran.downloads[n].ran)
                   /\ ran.downloads[n].value = LabelOutcome(page.links[n], i)

\* a chain stopped at a valid strategy although a later one is valid too, with
\* another value
C1_Witness ==
    /\ pc = "done"
    /\ \E c \in ScalarChains :
          LET k == Len(ran[c])
          IN  /\ k >= 1
              /\ StrategyValid(c, k)
              /\ out[c] = StrategyOutcome(c, k).value
              /\ \E j \in (k + 1)..NumStrategies(c) :
                    /\ StrategyValid(c, j)
                    /\ StrategyOutcome(c, j).value # out[c]

\* C2: extract_all_data returns a record with all ten fields for every page;
\* no exception escapes it.
C2_AlwaysReturnsFullRecord ==
    /\ pc # "raised"
    /\ raised = NotRaised
    /\ pc = "done" => DOMAIN record = RecordFields

\* the URLs of the returned record
FinishUrls(finishes) ==
    UNION { UNION { {finishes[m][c][i].color_url : i \in 1..Len(finishes[m][c])} :
                    c \in DOMAIN finishes[m] } : m \in DOMAIN finishes }

RecordUrls(r) ==
    (IF r.designer.image = None THEN {} ELSE {r.designer.image})
        \cup UNION {Range(r.images[c]) : c \in DOMAIN r.images}
        \cup {r.downloads[i].url : i \in 1..Len(r.downloads)}
        \cup FinishUrls(r.coverings_and_finishes)

\* C3: every URL of a returned record is absolute.
C3_AllUrlsAbsolute ==
    pc = "done" => \A u \in RecordUrls(record) : IsAbsoluteUrl(u)

\* the candidates of the page that pass the validity filter, in document order
RetainedCandidates ==
    SelectSeq(download_candidates(BaseUrl(page.url), page.links, 1),
              LAMBDA d : ~download_invalid(d))

NoDuplicates(seq) == \A i, j \in 1..Len(seq) : seq[i] = seq[j] => i = j

\* the elements of res are those of src, in the order of their first occurrence in src
FirstSeenOrder(res, src) ==
    /\ Range(res) = Range(src)
    /\ NoDuplicates(res)
    /\ \A i, j \in 1..Len(res) : i < j => IndexOf(src, res[i]) < IndexOf(src, res[j])

\* C4: the downloads list holds exactly one entry per distinct (group, url)
\* pair of the retained candidates, in first-seen order.
C4_OneEntryPerDistinctPair ==
    Ran("extract_downloads") => FirstSeenOrder(out.downloads, RetainedCandidates)

\* C5: no entry of the downloads list has an empty group or a group that is
\* "UNDEFINED" after uppercasing.
C5_NoEmptyOrUndefinedGroup ==
    \A i \in 1..Len(out.downloads) :
       /\ out.downloads[i].group # <<>>
       /\ Upper(out.downloads[i].group) # W_UNDEFINED

\* a link whose group is UNDEFINED was a candidate, next to one that was kept
C5_Witness ==
    /\ pc = "done"
    /\ out.downloads # <<>>
    /\ \E d \in Range(download_candidates(BaseUrl(page.url), page.links, 1)) :
          d.group = W_UNDEFINED /\ IsAbsoluteUrl(d.url)

\* the sources process_image_src is applied to on the page
ImageSources == {image_source(page.imgs[i]) : i \in 1..Len(page.imgs)}

ProtocolRelative(s) == StartsWith(s, <<"/", "/">>)
RootRelative(s) == StartsWith(s, <<"/">>) /\ ~ProtocolRelative(s)

\* C6 as stated: process_image_src returns an absolute URL unchanged, maps
\* '//host/path' to 'https://host/path' and '/path' to base + '/path', and
\* applying it to its own result changes nothing.
C6_NormalizationLaws ==
    Ran("extract_images_by_category") =>
        \A s \in ImageSources :
           LET r == process_image_src(BaseUrl(page.url), s)
           IN  /\ IsAbsoluteUrl(s) => r = s
               /\ ProtocolRelative(s) => r = W_https \o <<":">> \o s
               /\ RootRelative(s) => r = BaseUrl(page.url) \o s
               /\ process_image_src(BaseUrl(page.url), r) = r

\* the markers that make process_image_src discard a URL, in any letter case
C6_Markers == {W_placeholder, W_loading, W_blank, W_icon, W_svg}
C6_Marked(u) == \E m \in C6_Markers : Contains(Lower(u), m)

\* C6, amended: the three laws hold for a source whose normalized URL holds no
\* marker; a source whose normalized URL holds a marker gives None; applying
\* process_image_src to its own result changes nothing (None stays None).
C6_NormalizationLawsUnlessMarked ==
    Ran("extract_images_by_category") =>
        \A s \in ImageSources :
           LET base == BaseUrl(page.url)
               r == process_image_src(base, s)
               expected == IF ProtocolRelative(s) THEN W_https \o <<":">> \o s
                           ELSE IF RootRelative(s) THEN base \o s
                           ELSE s
           IN  /\ (IsAbsoluteUrl(s) \/ ProtocolRelative(s) \/ RootRelative(s)) =>
                      r = IF C6_Marked(expected) THEN None ELSE expected
               /\ process_image_src(base, r) = r

\* the page holds a protocol-relative source that was made absolute and an
\* absolute source that was discarded for its marker
C6_Witness ==
    /\ pc = "done"
    /\ \E s \in ImageSources :
          /\ ProtocolRelative(s)
          /\ \E c \in ImageCategories : W_https \o <<":">> \o s \in Range(record.images[c])
    /\ \E s \in ImageSources :
          /\ IsAbsoluteUrl(s)
          /\ C6_Marked(s)
          /\ process_image_src(BaseUrl(page.url), s) = None

\* C7: no URL of an image category contains 'placeholder' or 'icon' or ends
\* with '.svg'.
C7_NoPlaceholderIconSvg ==
    \A c \in DOMAIN out.images :
       \A u \in Range(out.images[c]) :
          /\ ~Contains(u, W_placeholder)
          /\ ~Contains(u, W_icon)
          /\ ~EndsWith(u, W_svg)

\* an image matched by a category carries a marker, next to one that was kept
C7_Witness ==
    /\ pc = "done"
    /\ \E c \in ImageCategories :
          /\ record.images[c] # <<>>
          /\ \E i \in 1..Len(MatchedImgs(page, c)) :
                LET s == image_source(MatchedImgs(page, c)[i])
                IN  Truthy(s) /\ (Contains(s, W_icon) \/ Contains(s, W_placeholder)
                                     \/ EndsWith(s, W_svg))

\* C8: the images mapping always has exactly the four category keys, each
\* mapped to a sequence, empty when no element matched the category.
C8_FourCategoriesAlways ==
    /\ Ran("extract_images_by_category") =>
          /\ DOMAIN out.images = ImageCategories
          /\ \A c \in ImageCategories :
                /\ DOMAIN out.images[c] = 1..Len(out.images[c])
                /\ MatchedImgs(page, c) = <<>> => out.images[c] = <<>>
    /\ pc = "done" => record.images = out.images

\* some category is empty while another is not
C8_Witness ==
    /\ pc = "done"
    /\ \E c, d \in ImageCategories : record.images[c] = <<>> /\ record.images[d] # <<>>

\* C9: a category's sequence holds no URL twice, holds exactly the URLs that
\* process_image_src kept, and orders them by their first encounter.
C9_UniqueInFirstSeenOrder ==
    Ran("extract_images_by_category") =>
        \A c \in ImageCategories :
           FirstSeenOrder(out.images[c],
                          SelectSeq(Encountered(BaseUrl(page.url), MatchedImgs(page, c)), Truthy))

\* a URL was encountered twice in a category, after another URL
C9_Witness ==
    /\ pc = "done"
    /\ \E c \in ImageCategories :
          LET enc == Encountered(BaseUrl(page.url), MatchedImgs(page, c))
          IN  /\ Len(record.images[c]) >= 2
              /\ \E i, j \in 1..Len(enc) : i < j /\ Truthy(enc[i]) /\ enc[i] = enc[j]

\* the page has no element carrying an include URL
NoIncludeUrl == page.includePrimary = None /\ page.includeFallback = None

\* C10: without an include URL, extract_coverings_and_finishes returns the
\* empty mapping, raises nothing and fetches nothing, and the record has the
\* key coverings_and_finishes.
C10_NoIncludeUrlGivesEmptyMapping ==
    NoIncludeUrl =>
        /\ fetched = <<>>
        /\ out.coverings_and_finishes = NoFinishes
        /\ raised.at # "extract_coverings_and_finishes"
        /\ pc = "done" =>
              /\ "coverings_and_finishes" \in DOMAIN record
              /\ record.coverings_and_finishes = NoFinishes

\* the call returned on a page without include URL, whose finishes document
\* would have given entries
C10_Witness ==
    /\ pc = "done"
    /\ NoIncludeUrl
    /\ parse_finishes(BaseUrl(page.url), page.doc) # NoFinishes
    /\ record.coverings_and_finishes = NoFinishes

\* the secondary fetch was attempted and failed: requests.get raised, or the
\* status is not 200
FetchFailed ==
    /\ fetched # <<>>
    /\ fetch_raises(page, fetched[1]) \/ page.response.status # StatusOK

\* the extractors extract_all_data calls after extract_coverings_and_finishes
RemainingExtractors ==
    {"extract_product_name", "extract_sku", "extract_product_description",
     "extract_concept_and_design"}

StepOf(chain) ==
    CASE chain = "product_name" -> "extract_product_name"
      [] chain = "sku" -> "extract_sku"
      [] chain = "designer_name" -> "extract_designer"
      [] chain = "designer_bio" -> "extract_designer_bio"
      [] chain = "designer_image" -> "extract_designer_image"
      [] chain = "concept_and_design" -> "extract_concept_and_design"
      [] chain = "product_description" -> "extract_product_description"

\* the value of a chain's field in the returned record
FieldOf(r, chain) ==
    CASE chain = "designer_name" -> r.designer.name
      [] chain = "designer_bio" -> r.designer.bio
      [] chain = "designer_image" -> r.designer.image
      [] OTHER -> r[chain]

\* no strategy of the chain finds anything on the page
FindsNothing(chain) == \A k \in 1..NumStrategies(chain) : StrategyOutcome(chain, k) = Miss

\* C12: when every strategy of a scalar chain finds nothing, the extractor
\* returns None and no exception leaves it; the field of the record is None.
C12_ExhaustedChainGivesNone ==
    \A c \in ScalarChains :
       FindsNothing(c) =>
          /\ raised.at # StepOf(c)
          /\ Ran(StepOf(c)) => out[c] = None /\ ran[c] = [k \in 1..NumStrategies(c) |-> k]
          /\ pc = "done" => FieldOf(record, c) = None

\* the record was returned for a page on which the script evaluation fails
\* although a paragraph long enough is there, and every scalar field is None
C12_Witness ==
    /\ pc = "done"
    /\ page.scriptError
    /\ \E i \in 1..Len(page.paras) : Len(CleanText(page.paras[i].html)) > DescriptionMinLen
    /\ \A c \in ScalarChains : FindsNothing(c) /\ FieldOf(record, c) = None

\* the chains C13 names
NeverEmptyChains == {"product_name", "designer_name", "concept_and_design"}

\* C13: product_name, designer.name and concept_and_design are never the
\* empty string: a strategy whose value is empty does not win.
C13_NeverPopulatedWithEmpty ==
    \A c \in NeverEmptyChains :
       /\ Ran(StepOf(c)) => out[c] # <<>>
       /\ pc = "done" => FieldOf(record, c) # <<>>

\* strategy j of the chain finds no element
NoElement(chain, j) ==
    CASE chain = "product_name" ->
            (CASE j = 1 -> page.h1span = None
               [] j = 2 -> page.formName = None
               [] j = 3 -> ~page.jsonld.present)
      [] chain = "sku" -> IF j = 1 THEN ~page.divSku.found ELSE page.formSku = None
      [] chain = "designer_name" ->
            IF j = 1 THEN page.designerH3 = None ELSE page.formDesigner = None
      [] chain = "designer_bio" -> page.bioSel[j] = None
      [] chain = "designer_image" ->
            IF j <= Len(DesignerSelectors)
            THEN \A i \in 1..Len(page.imgs) :
                    ~AttrContains(page.imgs[i][DesignerSelectors[j].attr],
                                  DesignerSelectors[j].token)
            ELSE \A i \in 1..Len(page.imgs) :
                    page.imgs[i].src = None /\ page.imgs[i].dataSrc = None
      [] chain = "concept_and_design" ->
            (CASE j = 1 -> ~page.metaDesc.found
               [] j = 2 -> ~page.ogDesc.found
               [] OTHER -> page.conceptSel[j - 2] = None)
      [] chain = "product_description" ->
            IF j = 1 THEN \A i \in 1..Len(page.paras) : ~page.paras[i].inCmpText
            ELSE page.paras = <<>>

\* C14: when strategies 1..k-1 of a chain find no element and strategy k
\* yields a value, the field is that value; a page without the heading span
\* whose form carries data-product-name="Chair X" has product_name "Chair X".
C14_FirstPresentStrategyGivesField ==
    /\ \A c \in ScalarChains :
          \A k \in 1..NumStrategies(c) :
             /\ \A j \in 1..(k - 1) : NoElement(c, j)
             /\ StrategyOutcome(c, k).ret
             /\ Truthy(StrategyOutcome(c, k).value)
             => /\ Ran(StepOf(c)) => out[c] = StrategyOutcome(c, k).value
                /\ pc = "done" => FieldOf(record, c) = StrategyOutcome(c, k).value
    /\ page.h1span = None /\ page.formName = TxtChairX /\ pc = "done"
          => record.product_name = TxtChairX

\* the record of a page without heading span, with the form attribute and
\* with a JSON-LD block that names the product otherwise
C14_Witness ==
    /\ pc = "done"
    /\ page.h1span = None
    /\ page.formName = TxtChairX
    /\ product_name_jsonld(page).ret
    /\ product_name_jsonld(page).value # TxtChairX
    /\ record.product_name = TxtChairX

\* the innerHTML the k-th biography selector gives, trimmed
BioCandidate(k) == TrimOrNull(page.bioSel[k])
BioPasses(k) == Truthy(BioCandidate(k)) /\ Len(BioCandidate(k)) > BioMinLen

\* C15: when the primary selector's candidate fails the length check and an
\* alternate selector's candidate passes it, extract_designer_bio returns the
\* first passing candidate with its tags stripped.
C15_AlternateBioWins ==
    /\ Ran("extract_designer_bio")
    /\ ~page.scriptError
    /\ Truthy(BioCandidate(1))
    /\ ~BioPasses(1)
    /\ \E k \in 2..Len(page.bioSel) : BioPasses(k)
    => LET k0 == Min({k \in 2..Len(page.bioSel) : BioPasses(k)})
       IN  /\ out.designer_bio = Strip(StripTags(BioCandidate(k0)))
           /\ out.designer_bio # None
           /\ out.designer_bio # BioCandidate(1)
           /\ ran.designer_bio = [k \in 1..k0 |-> k]

\* the primary candidate has 80 characters, a later one 150 between tags, and
\* the biography of the record is the 150 characters without the tags
C15_Witness ==
    /\ pc = "done"
    /\ page.bioSel[1] = Text80
    /\ \E k \in 2..Len(page.bioSel) : page.bioSel[k] = Text150
    /\ record.designer.bio = Plain(BioMinLen + 50)

\* C16: a returned product description is longer than 20 characters and a
\* returned designer biography is longer than 100 characters.
C16_ReturnedTextIsLongEnough ==
    /\ Ran("extract_product_description") /\ out.product_description # None
          => Len(out.product_description) > DescriptionMinLen
    /\ Ran("extract_designer_bio") /\ out.designer_bio # None
          => Len(out.designer_bio) > BioMinLen

\* C17: extract_all_data starts only after the wait for the body has
\* succeeded and the settle delay has then elapsed.
C17_ExtractionAfterSettleDelay ==
    \A k \in 1..Len(events) :
       events[k].kind = "extract" =>
          \E j \in 1..(k - 1) :
             /\ events[j].kind = "body"
             /\ events[j].n = events[k].n
             /\ events[k].t >= events[j].t + SettleDelay

\* the scrapes begun and not ended among the first k events
ActiveScrapes(k) ==
    Cardinality({j \in 1..k : events[j].kind = "start"})
        - Cardinality({j \in 1..k : events[j].kind = "end"})

\* the browser sessions that were created and not quit
OpenSessions == {d \in 1..Len(drivers) : drivers[d].quits = 0}

\* C18: in scrape_multiple_urls the scrape of a URL starts only after the
\* scrape of the URL before it has ended, returned or raised, and the pacing
\* delay has then elapsed; never are two scrapes or two browser sessions
\* active together.
C18_ScrapesAreSerialAndPaced ==
    entry.fn = "scrape_multiple_urls" =>
        /\ \A k \in 1..Len(events) :
              events[k].kind = "start" /\ events[k].n > 1 =>
                 \E j \in 1..(k - 1) :
                    /\ events[j].kind = "end"
                    /\ events[j].n = events[k].n - 1
                    /\ events[k].t >= events[j].t + PacingDelay
        /\ \A k \in 1..Len(events) : ActiveScrapes(k) \in {0, 1}
        /\ Cardinality(OpenSessions) <= 1

\* the batch returned after a scrape that raised was followed by the scrape
\* of the next URL, and after one that returned was
C18_Witness ==
    /\ entry.fn = "scrape_multiple_urls"
    /\ ctl = "returned"
    /\ \E j, k \in 1..Len(events) :
          /\ events[j].kind = "end" /\ ~events[j].ok /\ events[j].n = 1
          /\ events[k].kind = "end" /\ events[k].ok /\ events[k].n = 2
    /\ Len(drivers) = 2

\* what extract_all_data gives for a page, the extractors taken as functions
ExpectedRecord(p) ==
    assemble(p, [ breadcrumbs |-> extract_breadcrumbs(p).value,
                  images |-> extract_images_by_category(p),
                  designer_name |-> extract_designer(p).value,
                  designer_bio |-> extract_designer_bio(p).value,
                  designer_image |-> extract_designer_image(p).value,
                  downloads |-> extract_downloads(p),
                  coverings_and_finishes |-> extract_coverings_and_finishes(p).value,
                  product_name |-> extract_product_name(p).value,
                  sku |-> extract_sku(p).value,
                  product_description |-> extract_product_description(p).value,
                  concept_and_design |-> extract_concept_and_design(p).value ])

\* the scrapes begun, and those that returned a record, in the order of the events
Begun == SelectSeq(events, LAMBDA e : e.kind = "start")
Succeeded == SelectSeq(events, LAMBDA e : e.kind = "end" /\ e.ok)

\* the URLs are attempted once each, in input order, and the list returned
\* holds the records of those that succeeded, in input order
AttemptsAndRecords ==
    entry.fn = "scrape_multiple_urls" =>
        /\ Len(Begun) <= Len(urls)
        /\ \A k \in 1..Len(Begun) : Begun[k].n = k
        /\ ctl = "returned" =>
              /\ Len(Begun) = Len(urls)
              /\ Len(all_data) = Len(Succeeded)
              /\ \A k \in 1..Len(all_data) :
                    all_data[k] = ExpectedRecord(Site(urls[Succeeded[k].n]).page)

\* C19: a failure while scraping one URL is that URL's failure only:
\* scrape_multiple_urls attempts every URL of its input once, in input order,
\* terminates, and returns the records of the URLs that succeeded, in input
\* order.
C19_FailureStaysWithItsUrl ==
    /\ []AttemptsAndRecords
    /\ <>(entry.fn = "scrape_multiple_urls" => ctl = "returned")

\* the batch returned the one record of its second URL after the extraction
\* of the first had raised
C19_Witness ==
    /\ entry.fn = "scrape_multiple_urls"
    /\ ctl = "returned"
    /\ urls = <<UrlBroken, UrlChair>>
    /\ Len(all_data) = 1
    /\ all_data[1].url = UrlChair
    /\ all_data[1].product_name = TxtChairX

\* the texts of the <loc> elements of the sitemap, in document order
LocTexts ==
    LET withText == SelectSeq(sitemap.urls, LAMBDA e : e.hasLoc /\ e.text # None)
    IN  [k \in 1..Len(withText) |-> withText[k].text]

\* the path of a URL: what follows the host, up to the query
UrlPath(u) ==
    LET rest == SubSeq(u, Len(BaseUrl(u)) + 1, Len(u))
    IN  BeforeFirst(rest, <<"?">>)

\* a product page: the path matches the product pattern and does not end in
\* a numeric-suffixed .html
IsProductPage(u) ==
    /\ Contains(UrlPath(Strip(u)), W_products)
    /\ ~numbered_html(UrlPath(Strip(u)))

\* C20: get_sitemap_urls returns, in document order, exactly the <loc> URLs
\* of the sitemap that are product pages.
C20_ExactlyTheProductUrls ==
    ctl = "returned" /\ sitemap.fetch = "ok" /\ sitemap.wellFormed =>
        sitemap_urls = SelectSeq(LocTexts, IsProductPage)

(***************************************************************************)
(* Downloads: which candidates are dropped, and the label taken from the   *)
(* file name.                                                              *)
(***************************************************************************)
\* the candidates of the page, in document order
Candidates == download_candidates(BaseUrl(page.url), page.links, 1)

\* C21: the only candidates dropped are those whose group is empty or is
\* exactly "UNDEFINED"; a candidate whose group merely contains "UNDEFINED"
\* keeps its (group, url) pair in the downloads list.
C21_OnlyEmptyOrUndefinedDropped ==
    Ran("extract_downloads") =>
       \A i \in 1..Len(Candidates) :
          LET d == Candidates[i]
          IN  (Strip(d.group) # <<>> /\ d.group # W_UNDEFINED)
                 => \E k \in 1..Len(out.downloads) : out.downloads[k] = d

\* the final path segment, split on underscore, the last token with its
\* extension removed, uppercased
FilenameToken(data_href) ==
    Upper(BeforeFirst(AfterLast(AfterLast(data_href, <<"/">>), <<"_">>), <<".">>))

\* the links of the page for which none of the three ancestor lookups gives a label
UnlabelledLinks ==
    { i \in 1..Len(page.links) :
         /\ Truthy(page.links[i].dataHref)
         /\ \A k \in 1..3 : ~Truthy(label_strategy(page.links[i], k)) }

\* C22: when none of the three ancestor lookups gives a label, the group is
\* the last underscore-separated token of the file name, extension removed,
\* uppercased, for every file name, one without an underscore included.
C22_GroupFromFilename ==
    Ran("extract_downloads") =>
       \A i \in UnlabelledLinks :
          ran.downloads[i].value # None
             => Upper(ran.downloads[i].value) = FilenameToken(page.links[i].dataHref)

(***************************************************************************)
(* Breadcrumbs: the structured block against the navigation widget.        *)
(***************************************************************************)
\* the structured block is there and parses: valid JSON, an object, whose
\* itemListElement is absent, empty, or a list of objects each with an object
\* (or no) item
StructuredParses(p) ==
    /\ p.jsonld.present /\ p.jsonld.valid /\ p.jsonld.top = "obj"
    /\ \/ p.jsonld.list \in {"missing", "emptystring", "emptydict"}
       \/ /\ p.jsonld.list = "list"
          /\ \A i \in 1..Len(p.jsonld.entries) :
                /\ p.jsonld.entries[i].kind = "obj"
                /\ p.jsonld.entries[i].item \in {"obj", "missing"}

\* the names of the entries of the structured block, one per entry
EntryNames(p) ==
    IF p.jsonld.list # "list" THEN <<>>
    ELSE [i \in 1..Len(p.jsonld.entries) |->
            IF p.jsonld.entries[i].item = "obj" /\ p.jsonld.entries[i].name # None
            THEN p.jsonld.entries[i].name ELSE <<>>]

\* the label of an item of the navigation widget, None when it has none
NavLabel(it) ==
    IF it.link /\ it.linkSpan # None THEN Strip(it.linkSpan)
    ELSE IF it.itemSpan # None THEN Strip(it.itemSpan) ELSE None

\* the labels of the items of the navigation widget, in order
NavLabels(p) ==
    IF ~p.nav.present THEN <<>>
    ELSE LET labels == [i \in 1..Len(p.nav.items) |-> NavLabel(p.nav.items[i])]
         IN  SelectSeq(labels, LAMBDA l : l # None)

\* C23: when the structured breadcrumb block is present and parses, the
\* record's breadcrumbs are the names of its entries, one per entry, in
\* document order; otherwise they are the labels of the items of the
\* navigation widget, in order.
C23_BreadcrumbsFromBlockOrWidget ==
    record # NoRecord =>
       record.breadcrumbs = IF StructuredParses(page) THEN EntryNames(page)
                            ELSE NavLabels(page)

\* C26: the list extract_breadcrumbs returns comes from one source: it is
\* the crumbs of the structured block alone, or the crumbs of the
\* navigation widget alone.
C26_BreadcrumbsFromOneSource ==
    Ran("extract_breadcrumbs") =>
       \/ out.breadcrumbs = breadcrumbs_nav(page)
       \/ /\ page.jsonld.present /\ page.jsonld.valid
          /\ page.jsonld.top = "obj" /\ page.jsonld.list = "list"
          /\ out.breadcrumbs = jsonld_crumbs(page.jsonld.entries, 1).crumbs

(***************************************************************************)
(* Coverings and finishes: the structured parse and the flat scan.         *)
(***************************************************************************)
\* the fetched document was parsed: the include URL was fetched with status 200
Parsed ==
    /\ Ran("extract_coverings_and_finishes")
    /\ fetched # <<>>
    /\ ~FetchFailed

\* the grid cells the structured parse takes an entry from, as <<tab, header,
\* cell>> positions: the tab has a label and an id, its id prefix names a
\* panel, the header is in an accordion item, the cell has a lazy-loaded
\* image with a URL
PanelOf(t) ==
    find_panel(page.doc,
               BeforeFirst(IF page.doc.tabs[t].id = None THEN <<>> ELSE page.doc.tabs[t].id,
                           <<"-">>))
MaterialOf(t) == Upper(Strip(page.doc.tabs[t].label))
CategoryOf(header) == IF header.title = None THEN W_Unknown_Category ELSE Strip(header.title)
TabsWithPanel ==
    IF ~page.doc.tablist THEN {}
    ELSE { t \in 1..Len(page.doc.tabs) :
             MaterialOf(t) # <<>> /\ Truthy(page.doc.tabs[t].id) /\ PanelOf(t) # 0 }
HeaderAt(x) == page.doc.panels[PanelOf(x[1])].headers[x[2]]
CellAt(x) == HeaderAt(x).cells[x[3]]
CellPositions ==
    UNION { UNION { { <<t, h, k>> :
                        k \in 1..Len(page.doc.panels[PanelOf(t)].headers[h].cells) } :
                    h \in 1..Len(page.doc.panels[PanelOf(t)].headers) } :
            t \in TabsWithPanel }
GridCells ==
    { x \in CellPositions :
        /\ HeaderAt(x).inItem
        /\ CellAt(x).hasImg
        /\ BeforeFirst(CellAt(x).dataSrc, W_jcr_content) # <<>> }

CellsOf(M, c) == {x \in GridCells : MaterialOf(x[1]) = M /\ CategoryOf(HeaderAt(x)) = c}
Before(x, y) ==
    \/ x[1] < y[1]
    \/ x[1] = y[1] /\ x[2] < y[2]
    \/ x[1] = y[1] /\ x[2] = y[2] /\ x[3] < y[3]
Position(x, S) == Cardinality({y \in S : Before(y, x)}) + 1

\* C25: in the structured parse every grid cell with a lazy-loaded image of
\* non-empty URL gives exactly one entry of finishes[M][c], M the uppercased
\* label of the tab whose id prefix is the id of the cell's panel and c the
\* category of its accordion item; the entries of a category are in order of
\* discovery; nothing else gives an entry; no material maps to an empty
\* mapping and no category to an empty sequence.
C25_StructuredParseGroupsCells ==
    (Parsed /\ GridCells # {}) =>
       LET f == out.coverings_and_finishes
       IN  /\ DOMAIN f = {MaterialOf(x[1]) : x \in GridCells}
           /\ \A M \in DOMAIN f :
                 /\ DOMAIN f[M] = {CategoryOf(HeaderAt(x)) :
                                   x \in {y \in GridCells : MaterialOf(y[1]) = M}}
                 /\ DOMAIN f[M] # {}
                 /\ \A c \in DOMAIN f[M] :
                       /\ Len(f[M][c]) = Cardinality(CellsOf(M, c))
                       /\ Len(f[M][c]) > 0
                       /\ \A x \in CellsOf(M, c) :
                             f[M][c][Position(x, CellsOf(M, c))].color_url =
                                finish_url(BaseUrl(page.url), CellAt(x).dataSrc)

\* two tabs gave the cells of their panels, and one category holds two entries
C25_Witness ==
    /\ pc = "done"
    /\ Parsed
    /\ Cardinality(DOMAIN record.coverings_and_finishes) = 2
    /\ \E M \in DOMAIN record.coverings_and_finishes :
          \E c \in DOMAIN record.coverings_and_finishes[M] :
             /\ Len(record.coverings_and_finishes[M][c]) = 2
             /\ record.coverings_and_finishes[M][c][1].color_url
                   # record.coverings_and_finishes[M][c][2].color_url

\* the folder token each image category is selected by
FolderToken ==
    [product_images |-> W_02_thumbnails,
     contextual_images |-> W_03_concept,
     dimension_images |-> W_08_dimensioni]

\* C27: every URL of product_images, contextual_images and dimension_images
\* contains the folder token of its category, whichever of src, data-src and
\* data-lazy-src the image carries.
C27_UrlHasFolderToken ==
    Ran("extract_images_by_category") =>
       \A cat \in DOMAIN FolderToken :
          \A i \in 1..Len(out.images[cat]) :
             Contains(out.images[cat][i], FolderToken[cat])

\* C28: every browser session scrape_product_from_url or
\* scrape_product_from_file creates is quit exactly once before the function
\* returns or raises, whatever the path: never twice, never left open once
\* control is back in the caller, and none is open when scrape_multiple_urls
\* has finished.
C28_EverySessionQuitOnce ==
    /\ \A i \in 1..Len(drivers) :
          /\ drivers[i].quits <= 1
          /\ drivers[i].quits = 0 => i = Len(drivers)
    /\ ctl \in {"for", "setup_driver", "collect", "sleep", "returned", "raised"}
          => \A i \in 1..Len(drivers) : drivers[i].quits = 1

\* scrape_product_from_file raised out of save_scraped_data_to_json, after
\* its session was created and quit
C28_Witness ==
    /\ entry.fn = "scrape_product_from_file"
    /\ ctl = "raised"
    /\ err = "TypeError"
    /\ \E i \in 1..Len(events) : events[i].kind = "extract"
    /\ Len(drivers) = 1
    /\ drivers[1].quits = 1

(***************************************************************************)
(* main (src/app.py): the Streamlit script.  Every interaction of the user *)
(* runs the script from the top with at most one button pressed; st.rerun  *)
(* ends the run and starts another one with no button pressed.  An action  *)
(* is one interaction, with the rerun it triggers.                         *)
(*   session_state : st.session_state, a mapping from the keys present to  *)
(*                   their values                                          *)
(*   widgets       : the radio of the side bar and the filter text input   *)
(* The scraping and sitemap functions called by the script are taken as    *)
(* functions of their input and of what the network does.                  *)
(***************************************************************************)
\* items_per_page: the URLs shown on one page of the selection list; as many
\* as make the sitemaps explored span several pages
items_per_page == 1

Has(s, k) == k \in DOMAIN s
Put(s, k, v) == [x \in DOMAIN s \cup {k} |-> IF x = k THEN v ELSE s[x]]
Del(s, k) == [x \in DOMAIN s \ {k} |-> s[x]]

\* a Python value that is a dict, and one that is a list
PyDict(d) == [type |-> "dict", value |-> d]
PyList(l) == [type |-> "list", value |-> l]

\* the record scrape_product_from_url returns for the page at u: the script
\* keeps it as it is, so it is taken with the fields of a page on which
\* nothing was found
Scraped(u) == [f \in RecordFields |-> IF f = "url" THEN u ELSE None]

\* scrape_multiple_urls(urls): the records of the URLs that could be scraped
\* (ok[i] says that the i-th could), in the order of urls
scrape_multiple_urls(us, ok) ==
    LET done == SelectSeq([i \in 1..Len(us) |-> i], LAMBDA i : ok[i])
    IN  [k \in 1..Len(done) |-> Scraped(us[done[k]])]

\* get_sitemap_urls(): the list it returns when the network gives sitemap sm
get_sitemap_urls(sm) ==
    LET locs == SelectSeq(sm.urls, LAMBDA e : e.hasLoc)
    IN  IF sm.fetch # "ok" \/ ~sm.wellFormed \/ \E i \in 1..Len(locs) : locs[i].text = None
        THEN <<>>
        ELSE LET kept == SelectSeq(locs, LAMBDA e : is_product_url(e.text))
             IN  [i \in 1..Len(kept) |-> kept[i].text]

\* what the user may type and tick
TermSofa == <<"S", "o", "f", "a">>
SearchTerms == {<<>>, TermSofa}
UrlInputs == {<<>>, LocProduct, LocOther}
LineSamples == {LocProduct, LocCategoryPadded, LocOther, TxtBlank}
Boxes == [1..items_per_page -> BOOLEAN]
\* the sitemaps the network may give: product URLs, other URLs, an empty
\* <loc>, a failing request
UiSitemaps ==
    { [fetch |-> "ok", wellFormed |-> TRUE, urls |-> us] :
         us \in SeqsUpTo({UrlElem(TRUE, LocProduct), UrlElem(TRUE, LocQuery),
                          UrlElem(TRUE, LocOther), UrlElem(TRUE, None)}, MaxLocs) }
    \cup { [fetch |-> "error", wellFormed |-> TRUE, urls |-> <<UrlElem(TRUE, LocProduct)>>] }

\* a variant that forgets the data and keeps the mode
clear_data_keeping_mode(s) == Del(s, "scraped_data")

\* del st.session_state.scraped_data; del st.session_state.scrape_mode
clear_data(s) == Del(Del(s, "scraped_data"), "scrape_mode")

\* st.session_state.scraped_data = ...; st.session_state.scrape_mode = ...
store_data(s, d, mode) == Put(Put(s, "scraped_data", d), "scrape_mode", mode)

\* the data of mode is on display: the Clear Data button of that mode is there
Displayed(s, mode) == Has(s, "scraped_data") /\ s["scrape_mode"] = mode

\* list.remove(url): the first occurrence goes
Remove(seq, x) ==
    LET at1 == IndexOf(seq, x)
    IN  SubSeq(seq, 1, at1 - 1) \o SubSeq(seq, at1 + 1, Len(seq))

filtered_urls(s, search_term) ==
    IF search_term # <<>>
    THEN SelectSeq(s["sitemap_urls"], LAMBDA url : Contains(Lower(url), Lower(search_term)))
    ELSE s["sitemap_urls"]

total_pages(filtered) == (Len(filtered) - 1) \div items_per_page + 1

\* 'Initialize current page', 'Ensure current page is within bounds'
current_page(s, filtered) ==
    LET page0 == IF Has(s, "current_page") THEN s["current_page"] ELSE 0
    IN  IF page0 >= total_pages(filtered) THEN total_pages(filtered) - 1
        ELSE IF page0 < 0 THEN 0 ELSE page0

page_urls(filtered, page_no) ==
    LET start_idx == page_no * items_per_page
        end_idx == IF start_idx + items_per_page < Len(filtered)
                   THEN start_idx + items_per_page ELSE Len(filtered)
    IN  SubSeq(filtered, start_idx + 1, end_idx)

\* the loop over the check boxes of the page: box[i] is what the i-th returns
RECURSIVE checkboxes(_, _, _, _)
checkboxes(selected_urls, shown, box, i) ==
    IF i > Len(shown) THEN selected_urls
    ELSE LET url == shown[i]
             next == IF box[i] /\ url \notin Range(selected_urls)
                     THEN Append(selected_urls, url)
                     ELSE IF ~box[i] /\ url \in Range(selected_urls)
                     THEN Remove(selected_urls, url)
                     ELSE selected_urls
         IN  checkboxes(next, shown, box, i + 1)

\* the selection section of a run in which none of its buttons is pressed:
\* filter, pagination set-up and check boxes
selection_section(s, search_term, box) ==
    IF ~Has(s, "sitemap_urls") THEN s
    ELSE LET filtered == filtered_urls(s, search_term)
         IN  IF filtered = <<>> THEN s
             ELSE LET page_no == current_page(s, filtered)
                      paged == Put(s, "current_page", page_no)
                  IN  Put(paged, "selected_urls",
                          checkboxes(s["selected_urls"], page_urls(filtered, page_no), box, 1))

\* a run of the script in which no button is pressed
run(s, w, box) ==
    IF w.scrape_mode = ModeSitemap THEN selection_section(s, w.search_term, box) ELSE s

UiUnchanged == UNCHANGED <<extractVars, appVars>>

\* the user picks another mode of the radio; the filter input is not kept
SelectMode ==
    /\ \E mode \in {ModeSingle, ModeMultiple, ModeSitemap}, box \in Boxes :
          /\ mode # widgets.scrape_mode
          /\ widgets' = [scrape_mode |-> mode, search_term |-> <<>>]
          /\ session_state' = run(session_state, widgets', box)
    /\ UiUnchanged

\* 'Scrape Product': scrape_single_url gives the record, or None after an error
ScrapeProduct ==
    /\ widgets.scrape_mode = ModeSingle
    /\ \E url \in UrlInputs, ok \in BOOLEAN :
          session_state' =
             IF Truthy(url) /\ Contains(url, W_products) /\ ok
             THEN store_data(session_state, PyDict(Scraped(url)), "single")
             ELSE session_state
    /\ UNCHANGED widgets
    /\ UiUnchanged

\* 'Scrape All URLs': the lines are stripped, the empty ones dropped, the
\* product URLs scraped
ScrapeAllUrls ==
    /\ widgets.scrape_mode = ModeMultiple
    /\ \E urls_text \in SeqsUpTo(LineSamples, MaxUrls) :
          LET stripped == [i \in 1..Len(urls_text) |-> Strip(urls_text[i])]
              valid_urls == SelectSeq(SelectSeq(stripped, LAMBDA url : url # <<>>),
                                      LAMBDA url : Contains(url, W_products))
          IN  \E ok \in [1..Len(valid_urls) -> BOOLEAN] :
                 LET data_list == scrape_multiple_urls(valid_urls, ok)
                 IN  session_state' =
                        IF urls_text # <<>> /\ valid_urls # <<>> /\ data_list # <<>>
                        THEN store_data(session_state, PyList(data_list), "multiple")
                        ELSE session_state
    /\ UNCHANGED widgets
    /\ UiUnchanged

\* 'Clear Data' of the mode on display, and the rerun
ClearData ==
    /\ \E box \in Boxes, box2 \in Boxes :
          LET before == run(session_state, widgets, box)
              mode == CASE widgets.scrape_mode = ModeSingle -> "single"
                        [] widgets.scrape_mode = ModeMultiple -> "multiple"
                        [] widgets.scrape_mode = ModeSitemap -> "sitemap"
          IN  /\ Displayed(before, mode)
              /\ session_state' = run(clear_data(before), widgets, box2)
    /\ UNCHANGED widgets
    /\ UiUnchanged

\* 'Load Sitemap URLs'
LoadSitemapUrls ==
    /\ widgets.scrape_mode = ModeSitemap
    /\ \E sm \in UiSitemaps, box \in Boxes :
          LET loaded == get_sitemap_urls(sm)
              stored == IF loaded = <<>> THEN session_state
                        ELSE Put(IF Has(session_state, "selected_urls") THEN session_state
                                 ELSE Put(session_state, "selected_urls", <<>>),
                                 "sitemap_urls", loaded)
          IN  session_state' = run(stored, widgets, box)
    /\ UNCHANGED widgets
    /\ UiUnchanged

\* what 'Select All', 'Deselect All' and 'Invert Selection' assign to selected_urls
bulk_selection(s, button) ==
    CASE button = "Select All" -> s["sitemap_urls"]
      [] button = "Deselect All" -> <<>>
      [] button = "Invert Selection" ->
            SelectSeq(s["sitemap_urls"], LAMBDA url : url \notin Range(s["selected_urls"]))

\* one of the three buttons is pressed; the script is rerun
BulkSelection(button) ==
    /\ widgets.scrape_mode = ModeSitemap
    /\ Has(session_state, "sitemap_urls")
    /\ \E box \in Boxes :
          session_state' = run(Put(session_state, "selected_urls",
                                   bulk_selection(session_state, button)),
                               widgets, box)
    /\ UNCHANGED widgets
    /\ UiUnchanged

SelectAll == BulkSelection("Select All")
DeselectAll == BulkSelection("Deselect All")
InvertSelection == BulkSelection("Invert Selection")

\* the user ticks or unticks check boxes of the page shown
ToggleCheckboxes ==
    /\ widgets.scrape_mode = ModeSitemap
    /\ Has(session_state, "sitemap_urls")
    /\ \E box \in Boxes : session_state' = run(session_state, widgets, box)
    /\ UNCHANGED widgets
    /\ UiUnchanged

\* the user changes the text of the filter
ChangeFilter ==
    /\ widgets.scrape_mode = ModeSitemap
    /\ Has(session_state, "sitemap_urls")
    /\ \E search_term \in SearchTerms, box \in Boxes :
          /\ search_term # widgets.search_term
          /\ widgets' = [widgets EXCEPT !.search_term = search_term]
          /\ session_state' = run(session_state, widgets', box)
    /\ UiUnchanged

\* 'Previous' (by = -1) and 'Next' (by = 1), at the bottom of the page shown,
\* each with its rerun
ChangePage(by) ==
    /\ widgets.scrape_mode = ModeSitemap
    /\ Has(session_state, "sitemap_urls")
    /\ \E box \in Boxes, box2 \in Boxes :
          LET before == run(session_state, widgets, box)
              filtered == filtered_urls(before, widgets.search_term)
          IN  /\ filtered # <<>>
              /\ total_pages(filtered) > 1
              /\ before["current_page"] + by \in 0..(total_pages(filtered) - 1)
              /\ session_state' = run(Put(before, "current_page", before["current_page"] + by),
                                      widgets, box2)
    /\ UNCHANGED widgets
    /\ UiUnchanged

PreviousPage == ChangePage(-1)
NextPage == ChangePage(1)

\* 'Scrape Selected Products', shown when the selection is not empty
ScrapeSelected ==
    /\ widgets.scrape_mode = ModeSitemap
    /\ Has(session_state, "sitemap_urls")
    /\ \E box \in Boxes :
          LET before == run(session_state, widgets, box)
          IN  /\ before["selected_urls"] # <<>>
              /\ \E ok \in [1..Len(before["selected_urls"]) -> BOOLEAN] :
                    LET data_list == scrape_multiple_urls(before["selected_urls"], ok)
                    IN  session_state' = IF data_list # <<>>
                                        THEN store_data(before, PyList(data_list), "sitemap")
                                        ELSE before
    /\ UNCHANGED widgets
    /\ UiUnchanged

\* a new session of the application
UiInit ==
    /\ page = DefaultPage
    /\ pc = "idle"
    /\ out = EmptyOut
    /\ ran = EmptyRan
    /\ raised = NotRaised
    /\ fetched = <<>>
    /\ record = NoRecord
    /\ entry = [fn |-> "main", save_to_json |-> FALSE]
    /\ urls = <<>>
    /\ idx = 0
    /\ all_data = <<>>
    /\ ctl = "none"
    /\ drivers = <<>>
    /\ now = 0
    /\ events = <<>>
    /\ err = NoError
    /\ data = NoRecord
    /\ sitemap = [fetch |-> "ok", wellFormed |-> TRUE, urls |-> <<>>]
    /\ sitemap_urls = <<>>
    /\ UiIdle

UiNext ==
    \/ SelectMode
    \/ ScrapeProduct
    \/ ScrapeAllUrls
    \/ ClearData
    \/ LoadSitemapUrls
    \/ SelectAll
    \/ DeselectAll
    \/ InvertSelection
    \/ ToggleCheckboxes
    \/ ChangeFilter
    \/ PreviousPage
    \/ NextPage
    \/ ScrapeSelected

UiSpec == UiInit /\ [][UiNext]_vars

\* C29: the session state holds scraped_data and scrape_mode both or
\* neither, and their shapes agree: 'single' goes with one record,
\* 'multiple' and 'sitemap' go with a non-empty list of records.
C29_DataAndModeAgree ==
    /\ Has(session_state, "scraped_data") <=> Has(session_state, "scrape_mode")
    /\ Has(session_state, "scraped_data") =>
          LET d == session_state["scraped_data"]
              mode == session_state["scrape_mode"]
          IN  /\ mode \in {"single", "multiple", "sitemap"}
              /\ mode = "single" => d.type = "dict" /\ DOMAIN d.value = RecordFields
              /\ mode # "single" =>
                    /\ d.type = "list"
                    /\ Len(d.value) >= 1
                    /\ \A i \in 1..Len(d.value) : DOMAIN d.value[i] = RecordFields

\* a list of two records was scraped in sitemap mode, and the user went
\* over to the single mode
C29_Witness ==
    /\ widgets.scrape_mode = ModeSingle
    /\ Has(session_state, "scraped_data")
    /\ session_state["scrape_mode"] = "sitemap"
    /\ Len(session_state["scraped_data"].value) = 2

\* C30: selected_urls holds no URL twice, and every URL of it belongs to the
\* sitemap_urls loaded now.
C30_SelectionWithinSitemap ==
    Has(session_state, "selected_urls") =>
       /\ NoDuplicates(session_state["selected_urls"])
       /\ Range(session_state["selected_urls"]) \subseteq Range(session_state["sitemap_urls"])

====
